---- MODULE Spec2Model ----
(***************************************************************************)
(* A model of slash_util: the dispatch router (Bot and Cog listeners of    *)
(* on_interaction), the modal correlator (Modal, send_modal and the        *)
(* pending-modal table) and the command registry.                          *)
(***************************************************************************)
EXTENDS Integers, Sequences, FiniteSets, TLC

None == "None"

\* ---------------------------------------------------------------- bounds
MaxInteractions == 1
MaxFutures == 3
\* The numbers of ranges are 0..MaxNum
MaxNum == 3
\* A handler has at most MaxParams parameters after cog and context
\* the count of an interaction's created responses stops here
MaxResponses == 2
MaxParams == 2

\* ------------------------------------------------------- program constants
\* interaction.type.value of a modal submission and of an autocomplete request
MODAL_SUBMIT == 5
AUTOCOMPLETE == 4
\* discord.InteractionType.application_command, .component and .ping
APPLICATION_COMMAND == 2
COMPONENT == 3
PING == 1
\* the "type" of the autocomplete-result response envelope
AUTOCOMPLETE_RESULT == 8
\* InteractionResponseType: pong, channel_message, deferred_channel_message,
\* deferred_message_update and message_update
PONG == 1
CHANNEL_MESSAGE == 4
DEFERRED_CHANNEL_MESSAGE == 5
DEFERRED_MESSAGE_UPDATE == 6
MESSAGE_UPDATE == 7

\* ------------------------------------------------------------------ sets
\* The interactions send_modal responds to, and the modal-submission interactions
Interactions == 1..MaxInteractions
Submissions == {"s1", "s2"}
FutureIds == 1..MaxFutures
\* The Modal objects of the application and the custom_id each was built with.
Modals == {"m1", "m2"}
CustomIds == {"a", "b"}
Tasks == {"t1"}
\* The coroutines that run a response method, each at most once
Coroutines == {"r1", "r2"}
\* bot.cogs in insertion order: the loaded slash_util.Cog instances.
Cogs == <<"c1", "c2">>
CogSet == {Cogs[k] : k \in 1..Len(Cogs)}
Listeners == {"bot"} \cup CogSet

VARIABLES
    hasModals,  \* hasattr(bot._connection, "_modals")
    modals,     \* bot._connection._modals: custom_id -> Modal, None when absent
    response,   \* Modal._response: the modal's current future
    futures,    \* the asyncio.Future objects created so far
    task,       \* the coroutines calling Modal.wait: idle or suspended on a future
    ret,        \* what each caller's last Modal.wait produced
    responded,  \* InteractionResponse._responded of each interaction
    inflight,   \* send_modal coroutines suspended in create_interaction_response
    err,        \* the error the last call of the application raised
    event,      \* the type and the name or custom_id of the event of the last step
                \* and, of an autocomplete request, its focused options
    raised,     \* per listener, the error its handler raised on the last event
    invoked,    \* the command handlers the last event invoked, in order
    hooks,      \* the slash_command_error calls the last event made, in order
    completed,  \* the completion handlers the last event called, in order
    sent,       \* the interaction responses the last event sent, in order
    application_id, \* Bot.application_id, None before it is fetched
    commands,   \* Cog._commands of each loaded cog: name -> Command, None when absent
    platform,   \* per scope, the command names the platform holds
    loaded,     \* Bot.cogs: the cogs that are loaded
    inbox,      \* the inbound application command the gateway delivers
    func,       \* the slash command pog: its handler's parameters and _param_desc_
                \* and the command's _parameter_descriptions
    built,      \* what the last SlashCommand._build_command_payload produced
    made,       \* what the last construction of a Range produced
    outage,     \* the scopes whose bulk upsert the platform answers with an error
    bulk,       \* the last sync_commands or delete_all_commands: the error it
                \* raised and the bulk upserts it issued, in order
    parent_type, \* interaction.type of each interaction
    created,    \* per interaction, how many create_interaction_response calls
                \* have completed
    http,       \* the last send_message, defer, pong, edit_message or Context.send:
                \* the method that answered and the calls it issued
    start,      \* how far Bot.start has come: idle before it is called, then
                \* identified, synced, connected; raised when it raised
    coro        \* the coroutines running a response method: the method, its
                \* interaction, whether it has called create_interaction_response
                \* and where it is: not begun, suspended in the call, or how it ended

tableVars == <<hasModals, modals, futures>>
eventVars == <<event, raised, invoked, hooks, completed, sent>>
registryVars == <<application_id, commands, platform>>
registryInputs == <<loaded, inbox, func, built, made, outage, bulk>>
extVars == <<loaded, inbox, func, built, made, outage, bulk, parent_type, created, http,
            start, coro>>
vars == <<hasModals, modals, response, futures, task, ret, responded, inflight, err,
          event, raised, invoked, hooks, completed, sent, application_id, commands, platform,
          loaded, inbox, func, built, made, outage, bulk, parent_type, created, http,
          start, coro>>

\* ret, err and the event variables tell what the last step produced: a step that
\* is no call of wait, no raising call and no event leaves them empty.
NoReturn == [kind |-> "none", value |-> None, suspended |-> FALSE]
NoReturns == [t \in Tasks |-> NoReturn]
NoRaised == [l \in Listeners |-> None]
NoLastEvent == [type |-> 0, key |-> None, focused |-> <<>>]
\* built and made before any payload is built and any Range constructed
NotBuilt == [called |-> FALSE, err |-> None, keys |-> {}, options |-> <<>>]
NotMade == [form |-> None, min |-> [kind |-> "NoneType", v |-> 0],
            max |-> [kind |-> "NoneType", v |-> 0],
            range |-> [err |-> None, min |-> [kind |-> "NoneType", v |-> 0],
                       max |-> [kind |-> "NoneType", v |-> 0]]]
\* A coroutine before it is given a response method to run
NotBegun == [op |-> None, i |-> 0, call |-> FALSE, pc |-> "idle"]
\* http before any response method is called
NoHttp == [op |-> None, via |-> None, type |-> 0, call |-> FALSE, followup |-> FALSE]
\* bulk before any sync_commands and delete_all_commands
NoBulk == [by |-> None, err |-> None, calls |-> <<>>]
NoEvent ==
    /\ event' = NoLastEvent
    /\ raised' = NoRaised
    /\ invoked' = <<>>
    /\ hooks' = <<>>
    /\ completed' = <<>>
    /\ sent' = <<>>

\* Modal.custom_id
custom_id(m) == IF m = "m1" THEN "a" ELSE "b"

\* ----------------------------------------------------------- asyncio.Future
PendingFuture == [state |-> "PENDING", result |-> None, exception |-> None]

\* Future.done()
done(f) == f.state # "PENDING"

\* Future.cancelled()
cancelled(f) == f.state = "CANCELLED"

\* Future.set_result(v) on a pending future
set_result(f, v) == [f EXCEPT !.state = "FINISHED", !.result = v]

\* Future.set_exception(e) on a pending future
set_exception(f, e) == [f EXCEPT !.state = "FINISHED", !.exception = e]

\* Future.cancel(): a future that is done is left alone
cancel(f) == IF done(f) THEN f ELSE [f EXCEPT !.state = "CANCELLED"]

\* Future.result(): what the caller gets from a future that is done
FutureOutcome(f) ==
    IF f.state = "CANCELLED" THEN [kind |-> "CancelledError", value |-> None]
    ELSE IF f.exception # None THEN [kind |-> f.exception, value |-> None]
    ELSE [kind |-> "value", value |-> f.result]

\* ------------------------------------------------------------------ Modal
\* Modal.is_done
is_done(m) == done(futures[response[m]])

\* Modal.result
result(m) == FutureOutcome(futures[response[m]])

Idle == [pc |-> "idle", fut |-> 0]

\* Reset as it would be without the test of done(): the old future is dropped
\* as it is, and a caller waiting on it is never woken.
ResetDropsOld(m) ==
    /\ Len(futures) < MaxFutures
    /\ futures' = Append(futures, PendingFuture)
    /\ response' = [response EXCEPT ![m] = Len(futures) + 1]
    /\ ret' = NoReturns /\ err' = None /\ NoEvent
    /\ UNCHANGED <<hasModals, modals, task, responded, inflight, registryVars, extVars>>

\* Modal.reset: an unfinished future gets CancelledError as its exception, and a
\* new future replaces it.
Reset(m) ==
    /\ Len(futures) < MaxFutures
    /\ LET old == response[m]
           marked == IF ~done(futures[old])
                     THEN [futures EXCEPT ![old] = set_exception(@, "CancelledError")]
                     ELSE futures
       IN /\ futures' = Append(marked, PendingFuture)
          /\ response' = [response EXCEPT ![m] = Len(futures) + 1]
    /\ ret' = NoReturns /\ err' = None /\ NoEvent
    /\ UNCHANGED <<hasModals, modals, task, responded, inflight, registryVars, extVars>>

\* Modal.wait, up to its suspension: a modal that is done returns (or raises) its
\* result at once; otherwise the caller suspends in asyncio.wait_for on the future.
Wait(t, m) ==
    /\ task[t].pc = "idle"
    /\ IF is_done(m)
       THEN /\ ret' = [NoReturns EXCEPT ![t] = [kind |-> result(m).kind,
                                                value |-> result(m).value,
                                                suspended |-> FALSE]]
            /\ task' = task
       ELSE /\ task' = [task EXCEPT ![t] = [pc |-> "waiting", fut |-> response[m]]]
            /\ ret' = NoReturns
    /\ err' = None /\ NoEvent
    /\ UNCHANGED <<hasModals, modals, response, futures, responded, inflight, registryVars, extVars>>

\* asyncio.wait_for resumed by its future being done: the caller gets the result
WaitResume(t) ==
    /\ task[t].pc = "waiting"
    /\ done(futures[task[t].fut])
    /\ ret' = [NoReturns EXCEPT ![t] = [kind |-> FutureOutcome(futures[task[t].fut]).kind,
                                        value |-> FutureOutcome(futures[task[t].fut]).value,
                                        suspended |-> TRUE]]
    /\ task' = [task EXCEPT ![t] = Idle]
    /\ err' = None /\ NoEvent
    /\ UNCHANGED <<hasModals, modals, response, futures, responded, inflight, registryVars, extVars>>

\* asyncio.wait_for reaching its timeout: it cancels the future it waits on and
\* raises TimeoutError to the caller.
WaitTimeout(t) ==
    /\ task[t].pc = "waiting"
    /\ ~done(futures[task[t].fut])
    /\ futures' = [futures EXCEPT ![task[t].fut] = cancel(@)]
    /\ ret' = [NoReturns EXCEPT ![t] = [kind |-> "TimeoutError", value |-> None,
                                        suspended |-> TRUE]]
    /\ task' = [task EXCEPT ![t] = Idle]
    /\ err' = None /\ NoEvent
    /\ UNCHANGED <<hasModals, modals, response, responded, inflight, registryVars, extVars>>

\* --------------------------------------------- InteractionResponse.send_modal
\* send_modal up to its await: the modal is put in the table, then the responded
\* flag is tested, then create_interaction_response is called.
SendModalCall(i, m) ==
    /\ ~inflight[i]
    /\ hasModals' = TRUE
    /\ modals' = [modals EXCEPT ![custom_id(m)] = m]
    /\ IF responded[i]
       THEN /\ err' = "InteractionResponded"
            /\ inflight' = inflight
       ELSE /\ err' = None
            /\ inflight' = [inflight EXCEPT ![i] = TRUE]
    /\ ret' = NoReturns /\ NoEvent
    /\ UNCHANGED <<response, futures, task, responded, registryVars, extVars>>

\* create_interaction_response returns: the interaction is responded to
SendModalReturn(i) ==
    /\ inflight[i]
    /\ inflight' = [inflight EXCEPT ![i] = FALSE]
    /\ responded' = [responded EXCEPT ![i] = TRUE]
    /\ created' = [created EXCEPT ![i] = IF @ < MaxResponses THEN @ + 1 ELSE @]
    /\ err' = None
    /\ ret' = NoReturns /\ NoEvent
    /\ UNCHANGED <<hasModals, modals, response, futures, task, registryVars,
                   registryInputs, parent_type, coro, http, start>>

\* create_interaction_response raises: send_modal raises it on
SendModalFail(i) ==
    /\ inflight[i]
    /\ inflight' = [inflight EXCEPT ![i] = FALSE]
    /\ err' = "HTTPException"
    /\ ret' = NoReturns /\ NoEvent
    /\ UNCHANGED <<hasModals, modals, response, futures, task, responded, registryVars, extVars>>

\* ------------------------------------------- the other response methods
\* Context.send(modal=m) is _send_modal, which is send_modal: SendModalCall.

\* What create_interaction_response answers, and interaction.type
Answers == {"ok", "HTTPException"}
InteractionTypes == {PING, APPLICATION_COMMAND, COMPONENT, AUTOCOMPLETE, MODAL_SUBMIT}

\* A response method that raised InteractionResponded, one that raised before
\* its call, one that returned without a call, and one whose
\* create_interaction_response of the given type was answered
\* (call: the call was issued; completed: it returned; responded: _responded
\* afterwards)
Responded ==
    [err |-> "InteractionResponded", type |-> 0, call |-> FALSE, completed |-> FALSE,
     responded |-> TRUE]
Raised(e) ==
    [err |-> e, type |-> 0, call |-> FALSE, completed |-> FALSE, responded |-> FALSE]
Returned ==
    [err |-> None, type |-> 0, call |-> FALSE, completed |-> FALSE, responded |-> FALSE]
Called(type, answer) ==
    [err |-> IF answer = "ok" THEN None ELSE answer, type |-> type, call |-> TRUE,
     completed |-> answer = "ok", responded |-> answer = "ok"]

\* send_message as it would be if it never set _responded
send_message_forgetful(i, mixed, answer) ==
    IF responded[i] THEN Responded
    ELSE IF mixed THEN Raised("TypeError")
    ELSE [Called(CHANNEL_MESSAGE, answer) EXCEPT !.responded = FALSE]

\* InteractionResponse.send_message; handle_message_parameters raises TypeError
\* when file and files, or embed and embeds, are both given (mixed)
send_message(i, mixed, answer) ==
    IF responded[i] THEN Responded
    ELSE IF mixed THEN Raised("TypeError")
    ELSE Called(CHANNEL_MESSAGE, answer)

\* defer as it would be without its test of _responded
defer_unchecked(i, answer) ==
    IF parent_type[i] = COMPONENT THEN Called(DEFERRED_MESSAGE_UPDATE, answer)
    ELSE IF parent_type[i] = APPLICATION_COMMAND
    THEN Called(DEFERRED_CHANNEL_MESSAGE, answer)
    ELSE Returned

\* InteractionResponse.defer: only a component and an application command have a
\* defer_type
defer(i, answer) ==
    IF responded[i] THEN Responded
    ELSE IF parent_type[i] = COMPONENT THEN Called(DEFERRED_MESSAGE_UPDATE, answer)
    ELSE IF parent_type[i] = APPLICATION_COMMAND
    THEN Called(DEFERRED_CHANNEL_MESSAGE, answer)
    ELSE Returned

\* InteractionResponse.pong
pong(i, answer) ==
    IF responded[i] THEN Responded
    ELSE IF parent_type[i] = PING THEN Called(PONG, answer)
    ELSE Returned

\* InteractionResponse.edit_message
edit_message(i, mixed, answer) ==
    IF responded[i] THEN Responded
    ELSE IF parent_type[i] # COMPONENT THEN Returned
    ELSE IF mixed THEN Raised("TypeError")
    ELSE Called(MESSAGE_UPDATE, answer)

\* What a response method leaves: the flag, the count of created responses, the
\* error it raised and the call it issued
Respond(i, op, via, did, followup) ==
    /\ responded' = [responded EXCEPT ![i] = @ \/ did.responded]
    /\ created' = [created EXCEPT ![i] =
                      IF did.completed /\ @ < MaxResponses THEN @ + 1 ELSE @]
    /\ err' = did.err
    /\ http' = [op |-> op, via |-> via, type |-> did.type, call |-> did.call,
                followup |-> followup]
    /\ ret' = NoReturns /\ NoEvent
    /\ UNCHANGED <<tableVars, response, task, inflight, registryVars, registryInputs,
                   parent_type, coro, start>>

SendMessage(i, mixed, answer) ==
    Respond(i, "send_message", "send_message", send_message(i, mixed, answer), FALSE)
Defer(i, answer) == Respond(i, "defer", "defer", defer(i, answer), FALSE)
Pong(i, answer) == Respond(i, "pong", "pong", pong(i, answer), FALSE)
EditMessage(i, mixed, answer) ==
    Respond(i, "edit_message", "edit_message", edit_message(i, mixed, answer), FALSE)

\* Context.send without a modal, on the interaction of a command: the follow-up
\* webhook when the response is done, else send_message and then
\* original_message. answer is what the first call is answered, fetched what
\* original_message is.
ContextSend(i, mixed, answer, fetched) ==
    /\ parent_type[i] = APPLICATION_COMMAND
    /\ IF responded[i]
       THEN Respond(i, "Context.send", "followup",
                    IF mixed THEN Raised("TypeError")
                    ELSE IF answer # "ok" THEN Raised(answer) ELSE Returned,
                    ~mixed)
       ELSE Respond(i, "Context.send", "send_message",
                    IF send_message(i, mixed, answer).err = None /\ fetched # "ok"
                    THEN [send_message(i, mixed, answer) EXCEPT !.err = fetched]
                    ELSE send_message(i, mixed, answer),
                    FALSE)

\* Context.defer, on the interaction of a command
ContextDefer(i, answer) ==
    /\ parent_type[i] = APPLICATION_COMMAND
    /\ Respond(i, "Context.defer", "defer", defer(i, answer), FALSE)

\* ------------------------------- response methods as concurrent coroutines
\* The response methods a coroutine runs, each with well-formed arguments
Operations == {"send_message", "defer", "edit_message", "send_modal"}

\* Whether the method, called now, gets as far as create_interaction_response:
\* each tests _responded, defer and edit_message also interaction.type
Calls(i, op) ==
    CASE op = "send_message" -> send_message(i, FALSE, "ok").call
      [] op = "defer" -> defer(i, "ok").call
      [] op = "edit_message" -> edit_message(i, FALSE, "ok").call
      [] op = "send_modal" -> ~responded[i]

\* A coroutine runs a response method up to its await: send_modal first puts the
\* modal in the table; the method raises InteractionResponded when _responded
\* is set, returns when it has nothing to send, and otherwise is suspended in
\* create_interaction_response with _responded as it was.
Begin(r, i, op, m) ==
    /\ coro[r].pc = "idle"
    /\ coro' = [coro EXCEPT ![r] =
                   [op |-> op, i |-> i, call |-> Calls(i, op),
                    pc |-> IF Calls(i, op) THEN "suspended"
                           ELSE IF responded[i] THEN "InteractionResponded"
                           ELSE "returned"]]
    /\ err' = IF ~Calls(i, op) /\ responded[i] THEN "InteractionResponded" ELSE None
    /\ IF op = "send_modal"
       THEN /\ hasModals' = TRUE
            /\ modals' = [modals EXCEPT ![custom_id(m)] = m]
       ELSE UNCHANGED <<hasModals, modals>>
    /\ ret' = NoReturns /\ NoEvent
    /\ UNCHANGED <<futures, response, task, responded, inflight, registryVars,
                   registryInputs, parent_type, created, http, start>>

\* create_interaction_response answers a suspended coroutine: the method sets
\* _responded and returns, or raises the error of the call
Resume(r, answer) ==
    /\ coro[r].pc = "suspended"
    /\ coro' = [coro EXCEPT ![r].pc = IF answer = "ok" THEN "returned" ELSE answer]
    /\ responded' = [responded EXCEPT ![coro[r].i] = @ \/ answer = "ok"]
    /\ created' = [created EXCEPT ![coro[r].i] =
                      IF answer = "ok" /\ @ < MaxResponses THEN @ + 1 ELSE @]
    /\ err' = IF answer = "ok" THEN None ELSE answer
    /\ ret' = NoReturns /\ NoEvent
    /\ UNCHANGED <<tableVars, response, task, inflight, registryVars, registryInputs,
                   parent_type, http, start>>

\* ------------------------------------------------------------ Python values
\* A value is held with its type: an int, a float (its integral values only),
\* a str as a sequence of characters, and None.
IntValue(n) == [kind |-> "int", v |-> n]
FloatValue(n) == [kind |-> "float", v |-> n]
StrValue(x) == [kind |-> "str", v |-> x]
NoneValue == [kind |-> "NoneType", v |-> 0]
Digit(n) == CASE n = 0 -> "0" [] n = 1 -> "1" [] n = 2 -> "2" [] n = 3 -> "3"

\* str() of a value: an int gives its decimal digits, a string itself
str(candidate) ==
    IF candidate.kind = "int" THEN <<Digit(candidate.v)>> ELSE candidate.v

\* ------------------------------------------------------------------- Range
Numbers == {IntValue(n) : n \in 0..MaxNum} \cup {FloatValue(n) : n \in 0..MaxNum}
NoRange == [err |-> None, min |-> NoneValue, max |-> NoneValue]

\* Range.__init__ as it would be without its test of min against max
RangeInitUnchecked(min, max) == [err |-> None, min |-> min, max |-> max]

\* Range.__init__(min, max): ValueError unless min is None or min < max
RangeInit(min, max) ==
    IF min # NoneValue /\ min.v >= max.v
    THEN [NoRange EXCEPT !.err = "ValueError"]
    ELSE [err |-> None, min |-> min, max |-> max]

\* _RangeMeta.__getitem__: Range[min, max] is Range(min, max), Range[max] is
\* Range(None, max)
RangeGetItem(item) ==
    IF Len(item) = 2 THEN RangeInit(item[1], item[2])
    ELSE RangeInit(NoneValue, item[1])

\* Range(min, max) or Range[...] evaluated by the application
MakeRange(form, min, max) ==
    /\ form = "getitem_max" => min = NoneValue
    /\ made' = [form |-> form, min |-> min, max |-> max,
                range |-> CASE form = "init" -> RangeInit(min, max)
                            [] form = "getitem" -> RangeGetItem(<<min, max>>)
                            [] form = "getitem_max" -> RangeGetItem(<<max>>)]
    /\ built' = NotBuilt
    /\ err' = None
    /\ ret' = NoReturns /\ NoEvent
    /\ UNCHANGED <<tableVars, response, task, responded, inflight, registryVars,
                   loaded, inbox, func, outage, bulk,
                   parent_type, coro, created, http, start>>

\* --------------------------------------------------- the option schema builder
\* command_type_map as it would be with float given the wire type of str
command_type_map_float_as_str ==
    ("str" :> 3) @@ ("int" :> 4) @@ ("bool" :> 5) @@ ("User" :> 6) @@ ("Member" :> 6)
    @@ ("TextChannel" :> 7) @@ ("VoiceChannel" :> 7) @@ ("CategoryChannel" :> 7)
    @@ ("Role" :> 8) @@ ("float" :> 3) @@ ("Attachment" :> 11)

command_type_map ==
    ("str" :> 3) @@ ("int" :> 4) @@ ("bool" :> 5) @@ ("User" :> 6) @@ ("Member" :> 6)
    @@ ("TextChannel" :> 7) @@ ("VoiceChannel" :> 7) @@ ("CategoryChannel" :> 7)
    @@ ("Role" :> 8) @@ ("float" :> 10) @@ ("Attachment" :> 11)
channel_filter ==
    ("TextChannel" :> 0) @@ ("VoiceChannel" :> 2) @@ ("CategoryChannel" :> 4)
\* The subclasses of discord.abc.GuildChannel among the types of annotations
GuildChannels == {"TextChannel", "VoiceChannel", "CategoryChannel", "StageChannel"}

\* An annotation: none (param.empty), a class, a Range instance, a Union of
\* classes or a Literal of values
Annotation(kind, t, range, args, choices) ==
    [kind |-> kind, t |-> t, range |-> range, args |-> args, choices |-> choices]
Empty == Annotation("empty", None, NoRange, <<>>, <<>>)
Class(t) == Annotation("class", t, NoRange, <<>>, <<>>)
RangeOf(min, max) == Annotation("Range", None, RangeInit(min, max), <<>>, <<>>)
UnionOf(args) == Annotation("Union", None, NoRange, args, <<>>)
LiteralOf(choices) == Annotation("Literal", None, NoRange, <<>>, choices)

\* inspect.Parameter: name, annotation, and whether it has a default
Parameter(name, ann, has_default) ==
    [name |-> name, ann |-> ann, has_default |-> has_default]

\* _build_descriptions as it would be if it accepted every name
build_descriptions_unchecked(f) == None

\* SlashCommand._build_descriptions: a described name that is no parameter
\* raises TypeError
build_descriptions(f) ==
    IF \E k \in f.param_desc : \A i \in 1..Len(f.parameters) : f.parameters[i].name # k
    THEN "TypeError" ELSE None

\* The keys a _parameter_descriptions may get: the names of parameters and the
\* names @describe gave
DescribedNames ==
    {"some_option", "another_option", "third_option", "fourth_option", "ghost"}
\* defaultdict(lambda: "No description provided") of SlashCommand.__init__
NoDescriptions == [n \in DescribedNames |-> None]

\* _parameter_descriptions after _build_descriptions: the loop writes the names
\* it meets before the one that raises. A _param_desc_ of the model holds at most
\* one name, so a raising loop has written nothing.
described(f) ==
    IF build_descriptions(f) # None THEN f.parameter_descriptions
    ELSE [n \in DescribedNames |->
             IF n \in f.param_desc THEN "described" ELSE f.parameter_descriptions[n]]

\* self._parameter_descriptions[name]: the value the name has after
\* _build_descriptions, the default when it has none
parameter_description(f, name) ==
    IF described(f)[name] # None THEN described(f)[name] ELSE "No description provided"

NoOption ==
    [keys |-> {}, type |-> 0, name |-> None, description |-> None,
     max_value |-> NoneValue, min_value |-> NoneValue, choices |-> <<>>,
     channel_types |-> <<>>]

\* The body of the loop of _build_command_payload: the option of one parameter.
\* keys are the keys the option dict has.
build_option(f, param) ==
    LET ann == param.ann
        real_t == CASE ann.kind = "Range" -> ann.range.max.kind
                    [] ann.kind = "Union" -> ann.args[1]
                    [] ann.kind = "Literal" -> ann.choices[1].kind
                    [] OTHER -> ann.t
        option == [NoOption EXCEPT
                      !.keys = {"type", "name", "description"}
                               \cup (IF param.has_default THEN {} ELSE {"required"}),
                      !.type = command_type_map[real_t],
                      !.name = param.name,
                      !.description = parameter_description(f, param.name)]
    IN IF ann.kind = "empty" THEN [err |-> "TypeError", option |-> NoOption]
       ELSE IF real_t \notin DOMAIN command_type_map
       THEN [err |-> "KeyError", option |-> NoOption]
       ELSE IF ann.kind = "Range"
       THEN [err |-> None,
             option |-> [option EXCEPT !.keys = @ \cup {"max_value", "min_value"},
                                       !.max_value = ann.range.max,
                                       !.min_value = ann.range.min]]
       ELSE IF ann.kind = "Union"
       THEN IF \E i \in 1..Len(ann.args) : ann.args[i] \notin GuildChannels
            THEN [err |-> "TypeError", option |-> NoOption]
            ELSE IF Len(ann.args) = 3 THEN [err |-> None, option |-> option]
            ELSE IF \E i \in 1..Len(ann.args) : ann.args[i] \notin DOMAIN channel_filter
            THEN [err |-> "KeyError", option |-> NoOption]
            ELSE [err |-> None,
                  option |-> [option EXCEPT !.keys = @ \cup {"channel_types"},
                                 !.channel_types = [i \in 1..Len(ann.args) |->
                                                       channel_filter[ann.args[i]]]]]
       ELSE IF ann.kind = "Literal"
       THEN [err |-> None,
             option |-> [option EXCEPT !.keys = @ \cup {"choices"},
                            !.choices = [i \in 1..Len(ann.choices) |->
                                [name |-> str(ann.choices[i]), value |-> ann.choices[i]]]]]
       ELSE IF ann.t \in GuildChannels
       THEN [err |-> None,
             option |-> [option EXCEPT !.keys = @ \cup {"channel_types"},
                                       !.channel_types = <<channel_filter[ann.t]>>]]
       ELSE [err |-> None, option |-> option]

\* The loop of _build_command_payload over the parameters, from parameter k on
RECURSIVE BuildOptions(_, _, _)
BuildOptions(f, k, options) ==
    IF k > Len(f.parameters) THEN [err |-> None, options |-> options]
    ELSE LET o == build_option(f, f.parameters[k]) IN
         IF o.err # None THEN [err |-> o.err, options |-> <<>>]
         ELSE BuildOptions(f, k + 1, Append(options, o.option))

\* options.sort as it would be if it did nothing
unsorted(options) == options

\* options.sort(key=lambda f: not f.get('required')): a stable sort, the options
\* with required first
sort(options) ==
    SelectSeq(options, LAMBDA o : "required" \in o.keys)
        \o SelectSeq(options, LAMBDA o : "required" \notin o.keys)

\* SlashCommand._build_command_payload: the payload's keys and its options
build_command_payload(f) ==
    IF build_descriptions(f) # None
    THEN [NotBuilt EXCEPT !.called = TRUE, !.err = build_descriptions(f)]
    ELSE IF f.parameters = <<>>
    THEN [NotBuilt EXCEPT !.called = TRUE, !.keys = {"name", "description", "type"}]
    ELSE LET b == BuildOptions(f, 1, <<>>) IN
         IF b.err # None THEN [NotBuilt EXCEPT !.called = TRUE, !.err = b.err]
         ELSE [called |-> TRUE, err |-> None,
               keys |-> {"name", "description", "type", "options"},
               options |-> sort(b.options)]

\* Whether the loop of _build_command_payload, at this parameter, gets to look
\* its description up: the annotation is there and its type is in
\* command_type_map
reads_description(param) ==
    /\ param.ann.kind # "empty"
    /\ (CASE param.ann.kind = "Range" -> param.ann.range.max.kind
          [] param.ann.kind = "Union" -> param.ann.args[1]
          [] param.ann.kind = "Literal" -> param.ann.choices[1].kind
          [] OTHER -> param.ann.t) \in DOMAIN command_type_map

\* self._parameter_descriptions after _build_command_payload: what
\* _build_descriptions wrote, and the default under every name the loop looked
\* up that had no description, up to the parameter that raised
parameter_descriptions(f) ==
    LET params == f.parameters
        failing == {k \in 1..Len(params) : build_option(f, params[k]).err # None}
        last == IF failing = {} THEN Len(params)
                ELSE CHOOSE k \in failing : \A j \in failing : k <= j
        read == {params[k].name : k \in {j \in 1..last : reads_description(params[j])}}
    IN IF build_descriptions(f) # None THEN f.parameter_descriptions
       ELSE [n \in DescribedNames |->
                IF described(f)[n] = None /\ n \in read
                THEN "No description provided" ELSE described(f)[n]]

\* _build_command_payload called on the slash command by the application
BuildCommandPayload ==
    /\ built' = build_command_payload(func)
    /\ func' = [func EXCEPT !.parameter_descriptions = parameter_descriptions(func)]
    /\ made' = NotMade
    /\ err' = built'.err
    /\ ret' = NoReturns /\ NoEvent
    /\ UNCHANGED <<tableVars, response, task, responded, inflight, registryVars,
                   loaded, inbox, outage, bulk,
                   parent_type, coro, created, http, start>>

\* ------------------------------------------------------- the command registry
\* The Command members of the loaded cogs (examples/main.py): the slash command
\* pog and the message command quote of one cog, the user command bonk of another;
\* and the user command ping of a commands.Cog that is no slash_util.Cog.
CommandIds == {"k1", "k2", "k3", "k4"}
CommandDef(k) ==
    CASE k = "k1" -> [name |-> "pog", cog |-> "c1", kind |-> "slash", guild_id |-> "123"]
      [] k = "k2" -> [name |-> "quote", cog |-> "c1", kind |-> "message", guild_id |-> "123"]
      [] k = "k3" -> [name |-> "bonk", cog |-> "c2", kind |-> "user", guild_id |-> None]
      [] k = "k4" -> [name |-> "ping", cog |-> "p1", kind |-> "user", guild_id |-> None]
\* data.name of an inbound event: the three commands and a name no cog defines
CommandNames == {"pog", "quote", "bonk", "stale"}
Scopes == {None, "123"}
\* The cogs add_cog may have added: the slash_util.Cogs and a plain commands.Cog
PlainCogs == {"p1"}
AllCogs == CogSet \cup PlainCogs

\* inspect.getmembers(cog, lambda c: isinstance(c, Command))
Members(c) == {k \in CommandIds : CommandDef(k).cog = c}

\* Bot.start, up to sync_commands: after login the application's identity is
\* fetched and kept
FetchApplicationInfo ==
    /\ start = "idle"
    /\ application_id = None
    /\ application_id' = "app"
    /\ start' = "identified"
    /\ err' = None
    /\ ret' = NoReturns /\ NoEvent
    /\ UNCHANGED <<tableVars, response, task, responded, inflight, commands, platform,
                   registryInputs, parent_type, coro, created, http>>

\* MemberOrder as it would be without the isinstance test
MemberOrderOfAny(cogs) ==
    SelectSeq(<<"k1", "k2", "k3", "k4">>, LAMBDA k : CommandDef(k).cog \in cogs)

\* The Command members of the given cogs in the order sync_commands meets them:
\* the cogs in the order they were added, the members of a cog by name; a cog
\* that is no slash_util.Cog is passed over
MemberOrder(cogs) ==
    SelectSeq(<<"k1", "k2", "k3", "k4">>,
              LAMBDA k : CommandDef(k).cog \in cogs /\ CommandDef(k).cog \in CogSet)

\* The "type" of a command's payload: 1 of a SlashCommand, _type of a
\* UserCommand and of a MessageCommand
command_type == ("slash" :> 1) @@ ("user" :> 2) @@ ("message" :> 3)

\* The payload of a SlashCommand: name, type and what _build_command_payload
\* made of the handler's parameters
slash_payload(cmd, payload, f) ==
    [err |-> payload.err,
     body |-> [name |-> cmd.name, type |-> command_type[cmd.kind],
               keys |-> payload.keys, options |-> payload.options],
     func |-> f]

\* ContextMenuCommand._build_command_payload: the name and the type, and the
\* guild_id when there is one
context_menu_payload(cmd, f) ==
    [err |-> None,
     body |-> [name |-> cmd.name, type |-> command_type[cmd.kind],
               keys |-> {"name", "type"}
                        \cup (IF cmd.guild_id # None THEN {"guild_id"} ELSE {}),
               options |-> <<>>],
     func |-> f]

\* cmd._build_command_payload() of a member, pog being f: the error it raises,
\* the payload, and pog afterwards
build_payload(k, f) ==
    IF CommandDef(k).kind = "slash"
    THEN slash_payload(CommandDef(k), build_command_payload(f),
                       [f EXCEPT !.parameter_descriptions = parameter_descriptions(f)])
    ELSE context_menu_payload(CommandDef(k), f)

NoTables == [c \in CogSet |-> [n \in CommandNames |-> None]]
NoPayloads == [g \in Scopes |-> {}]
\* command_payloads as it would be if it were kept from one sync_commands to the
\* next
KeptCommandPayloads ==
    [g \in Scopes |->
        IF \E i \in 1..Len(bulk.calls) : bulk.calls[i].scope = g
        THEN bulk.calls[CHOOSE i \in 1..Len(bulk.calls) : bulk.calls[i].scope = g].payload
        ELSE <<>>]
\* command_payloads = defaultdict(list): no key yet
NoCommandPayloads == [g \in Scopes |-> <<>>]

\* File as it would be without the entry in the cog's table
FileUnregistered(acc, k, cmd, payload) ==
    IF payload.err # None
    THEN [acc EXCEPT !.err = payload.err, !.func = payload.func]
    ELSE [acc EXCEPT !.func = payload.func,
                     !.command_payloads[cmd.guild_id] = Append(@, payload.body),
                     !.scopes = IF \E i \in 1..Len(@) : @[i] = cmd.guild_id
                                THEN @ ELSE Append(@, cmd.guild_id)]

\* One turn of the loop of sync_commands: the command is put in its cog's table,
\* then its payload, if building it raised nothing, is appended to the list of
\* its guild_id. scopes are the keys of command_payloads in the order they were
\* first used.
File(acc, k, cmd, payload) ==
    IF payload.err # None
    THEN [acc EXCEPT !.err = payload.err,
                     !.commands[cmd.cog][cmd.name] = k,
                     !.func = payload.func]
    ELSE [acc EXCEPT !.commands[cmd.cog][cmd.name] = k,
                     !.func = payload.func,
                     !.command_payloads[cmd.guild_id] = Append(@, payload.body),
                     !.scopes = IF \E i \in 1..Len(@) : @[i] = cmd.guild_id
                                THEN @ ELSE Append(@, cmd.guild_id)]

\* The loop of sync_commands from member k on, which ends at the first payload
\* that fails to build
RECURSIVE SyncFrom(_, _, _)
SyncFrom(order, k, acc) ==
    IF k > Len(order) \/ acc.err # None THEN acc
    ELSE SyncFrom(order, k + 1,
             File(acc, order[k], CommandDef(order[k]), build_payload(order[k], acc.func)))

\* The order of the bulk upserts: command_payloads.pop(None, []) goes first, then
\* the guilds in the order of command_payloads.items()
UploadOrder(scopes) ==
    SelectSeq(scopes, LAMBDA g : g = None) \o SelectSeq(scopes, LAMBDA g : g # None)

\* The names of the commands of a list of payloads
Names(payload) == {payload[i].name : i \in 1..Len(payload)}

\* bulk_upsert as it would be if sync_commands passed over a call that raised
bulk_upsert_passing_over(acc, scope, payload) ==
    IF scope \in outage
    THEN [acc EXCEPT !.calls = Append(@, [scope |-> scope, payload |-> payload,
                                          raised |-> TRUE])]
    ELSE [acc EXCEPT !.calls = Append(@, [scope |-> scope, payload |-> payload,
                                          raised |-> FALSE]),
                     !.platform[scope] = Names(payload)]

\* One bulk upsert: a scope in outage raises HTTPException; any other replaces
\* the commands the platform holds for the scope
bulk_upsert(acc, scope, payload) ==
    IF scope \in outage
    THEN [acc EXCEPT !.err = "HTTPException",
                     !.calls = Append(@, [scope |-> scope, payload |-> payload,
                                          raised |-> TRUE])]
    ELSE [acc EXCEPT !.calls = Append(@, [scope |-> scope, payload |-> payload,
                                          raised |-> FALSE]),
                     !.platform[scope] = Names(payload)]

\* The bulk upserts of sync_commands from the i-th scope on, which end at the
\* first that raises
RECURSIVE Upload(_, _, _, _)
Upload(order, i, command_payloads, acc) ==
    IF i > Len(order) \/ acc.err # None THEN acc
    ELSE Upload(order, i + 1, command_payloads,
                bulk_upsert(acc, order[i], command_payloads[order[i]]))

\* sync_commands after its loop: nothing is uploaded when a payload failed to
\* build
UploadAll(synced) ==
    IF synced.err # None THEN synced
    ELSE Upload(UploadOrder(synced.scopes), 1, synced.command_payloads, synced)

\* The body of sync_commands after its test of application_id, on the given
\* cogs and tables, pog being f
Synced(cogs, tables, f) ==
    UploadAll(SyncFrom(MemberOrder(cogs), 1,
                  [err |-> None, commands |-> tables, func |-> f,
                   command_payloads |-> NoCommandPayloads, scopes |-> <<>>,
                   platform |-> platform, calls |-> <<>>]))

\* What sync_commands leaves: the error it raised, the tables, pog, the
\* platform's commands and the calls it issued
Return(synced) ==
    /\ err' = synced.err
    /\ commands' = synced.commands
    /\ func' = synced.func
    /\ platform' = synced.platform
    /\ bulk' = [by |-> "sync_commands", err |-> synced.err, calls |-> synced.calls]

\* sync_commands as it would be without its test of application_id
sync_commands_unguarded(cogs, tables, f) == Return(Synced(cogs, tables, f))

\* Bot.sync_commands on the given cogs and tables, pog being f: every Command
\* member is put in its cog's table, and each scope that has commands gets one
\* bulk upsert.
sync_commands(cogs, tables, f) ==
    Return(IF application_id = None
           THEN [err |-> "RuntimeError", commands |-> tables, func |-> f,
                 platform |-> platform, calls |-> <<>>]
           ELSE Synced(cogs, tables, f))

SyncCommands ==
    /\ sync_commands(loaded, commands, func)
    /\ ret' = NoReturns /\ NoEvent
    /\ UNCHANGED <<tableVars, response, task, responded, inflight, application_id,
                   loaded, inbox, built, made, outage,
                   parent_type, coro, created, http, start>>

\* Bot.start fails before sync_commands: login or application_info raises
StartRaises ==
    /\ start = "idle"
    /\ start' = "raised"
    /\ err' = "HTTPException"
    /\ ret' = NoReturns /\ NoEvent
    /\ UNCHANGED <<tableVars, response, task, responded, inflight, registryVars,
                   registryInputs, parent_type, coro, created, http>>

\* Bot.start: await self.sync_commands(); what it raises, start raises
StartSyncCommands ==
    /\ start = "identified"
    /\ sync_commands(loaded, commands, func)
    /\ start' = IF err' = None THEN "synced" ELSE "raised"
    /\ ret' = NoReturns /\ NoEvent
    /\ UNCHANGED <<tableVars, response, task, responded, inflight, application_id,
                   loaded, inbox, built, made, outage, parent_type, coro, created, http>>

\* connect as it would be if start called it without awaiting sync_commands
StartConnectEarly(answer) ==
    /\ start \in {"identified", "synced"}
    /\ start' = IF answer = "ok" THEN "connected" ELSE "raised"
    /\ err' = IF answer = "ok" THEN None ELSE answer
    /\ ret' = NoReturns /\ NoEvent
    /\ UNCHANGED <<tableVars, response, task, responded, inflight, registryVars,
                   registryInputs, parent_type, coro, created, http>>

\* Bot.start: await self.connect(reconnect=reconnect), which opens the gateway
\* connection or raises
StartConnect(answer) ==
    /\ start = "synced"
    /\ start' = IF answer = "ok" THEN "connected" ELSE "raised"
    /\ err' = IF answer = "ok" THEN None ELSE answer
    /\ ret' = NoReturns /\ NoEvent
    /\ UNCHANGED <<tableVars, response, task, responded, inflight, registryVars,
                   registryInputs, parent_type, coro, created, http>>

\* Bot.reload_all_extensions: every extension is reloaded, which leaves the cogs
\* its setup adds now, each a new object with an empty table and new commands,
\* and then the commands are synced.
ReloadAllExtensions(cogs) ==
    /\ loaded' = cogs
    /\ sync_commands(cogs, NoTables, [func EXCEPT !.parameter_descriptions = NoDescriptions])
    /\ ret' = NoReturns /\ NoEvent
    /\ UNCHANGED <<tableVars, response, task, responded, inflight, application_id,
                   inbox, built, made, outage,
                   parent_type, coro, created, http, start>>

\* delete_all_commands as it would be if it emptied every scope
DeleteAllCommandsEverywhere(guild_id) ==
    /\ application_id # None
    /\ platform' = IF guild_id \in outage THEN platform ELSE [g \in Scopes |-> {}]
    /\ err' = IF guild_id \in outage THEN "HTTPException" ELSE None
    /\ bulk' = [by |-> "delete_all_commands", err |-> err',
                calls |-> <<[scope |-> guild_id, payload |-> <<>>,
                             raised |-> guild_id \in outage]>>]
    /\ ret' = NoReturns /\ NoEvent
    /\ UNCHANGED <<tableVars, response, task, responded, inflight, application_id, commands,
                   loaded, inbox, func, built, made, outage, parent_type, coro, created, http, start>>

\* Bot.delete_all_commands, called once the application's identity is known: one
\* bulk upsert of no commands, on the given guild or, with no guild id, on the
\* global scope
DeleteAllCommands(guild_id) ==
    /\ application_id # None
    /\ platform' = IF guild_id \in outage THEN platform
                   ELSE [platform EXCEPT ![guild_id] = {}]
    /\ err' = IF guild_id \in outage THEN "HTTPException" ELSE None
    /\ bulk' = [by |-> "delete_all_commands", err |-> err',
                calls |-> <<[scope |-> guild_id, payload |-> <<>>,
                             raised |-> guild_id \in outage]>>]
    /\ ret' = NoReturns /\ NoEvent
    /\ UNCHANGED <<tableVars, response, task, responded, inflight, application_id, commands,
                   loaded, inbox, func, built, made, outage,
                   parent_type, coro, created, http, start>>

\* The platform begins or ends answering the bulk upserts of some scopes with an
\* error
Outage(scopes) ==
    /\ outage' = scopes
    /\ outage' # outage
    /\ err' = None
    /\ ret' = NoReturns /\ NoEvent
    /\ UNCHANGED <<tableVars, response, task, responded, inflight, registryVars,
                   loaded, inbox, func, built, made, bulk,
                   parent_type, coro, created, http, start>>

\* Bot.get_application_command: the first loaded cog whose table has the name
RECURSIVE CommandFrom(_, _)
RECURSIVE CommandFromOrAny(_, _)
\* CommandFrom as it would be if a miss fell back to any command of the cog
CommandFromOrAny(k, name) ==
    IF k > Len(Cogs) THEN None
    ELSE IF Cogs[k] \notin loaded THEN CommandFromOrAny(k + 1, name)
    ELSE IF commands[Cogs[k]][name] # None THEN commands[Cogs[k]][name]
    ELSE IF \E n \in CommandNames : commands[Cogs[k]][n] # None
    THEN commands[Cogs[k]][CHOOSE n \in CommandNames : commands[Cogs[k]][n] # None]
    ELSE CommandFromOrAny(k + 1, name)

CommandFrom(k, name) ==
    IF k > Len(Cogs) THEN None
    ELSE IF Cogs[k] \notin loaded THEN CommandFrom(k + 1, name)
    ELSE IF commands[Cogs[k]][name] # None THEN commands[Cogs[k]][name]
    ELSE CommandFrom(k + 1, name)

get_application_command(name) == CommandFrom(1, name)

\* ------------------------------------------------------ the argument resolver
Snowflakes == {1, 2}
Entity(kind, id) == [kind |-> kind, v |-> id]
Primitive(v) == [kind |-> "primitive", v |-> v]
NoData == [users |-> {}, members |-> {}, channels |-> {}, messages |-> {},
           roles |-> {}, attachments |-> {}]

\* _parse_resolved_data: the id -> entity table of data.resolved. The side tables
\* are read in the order users, channels, messages, roles, attachments, and a
\* later one replaces an earlier one's entry for the same id.
parse_resolved_data(ev) ==
    LET data == ev.resolved IN
    IF ~ev.has_resolved THEN [err |-> None, table |-> [x \in {} |-> None]]
    ELSE IF ~ev.guild THEN [err |-> "AssertionError", table |-> [x \in {} |-> None]]
    ELSE IF \E id \in data.users : id \notin data.members
    THEN [err |-> "KeyError", table |-> [x \in {} |-> None]]
    ELSE [err |-> None,
          table |-> [id \in data.users \cup data.channels \cup data.messages
                            \cup data.roles \cup data.attachments |->
              IF id \in data.attachments THEN Entity("Attachment", id)
              ELSE IF id \in data.roles THEN Entity("Role", id)
              ELSE IF id \in data.messages THEN Entity("Message", id)
              ELSE IF id \in data.channels THEN Entity("Channel", id)
              ELSE Entity("Member", id)]]

\* The loop of SlashCommand._build_arguments over data.options, from option k on
RECURSIVE BuildFrom(_, _, _, _)
BuildFrom(options, k, table, params) ==
    IF k > Len(options) THEN [err |-> None, params |-> params]
    ELSE LET option == options[k] IN
         IF option.type \in {6, 7, 8} /\ option.value \notin DOMAIN table
         THEN [err |-> "KeyError", params |-> params]
         ELSE LET value == IF option.type \in {6, 7, 8} THEN table[option.value]
                           ELSE Primitive(option.value)
              IN BuildFrom(options, k + 1, table,
                     [n \in DOMAIN params \cup {option.name} |->
                         IF n = option.name THEN value ELSE params[n]])

NoParams == [n \in {} |-> None]

\* build_arguments as it would be if a slash command read data.resolved before
\* it tested for data.options
build_arguments_resolved_first(command, ev) ==
    LET resolved == parse_resolved_data(ev) IN
    IF resolved.err # None THEN [err |-> resolved.err, params |-> NoParams]
    ELSE IF CommandDef(command).kind = "slash"
    THEN IF ~ev.has_options THEN [err |-> None, params |-> NoParams]
         ELSE BuildFrom(ev.options, 1, resolved.table, NoParams)
    ELSE IF ev.target_id \notin DOMAIN resolved.table
    THEN [err |-> "KeyError", params |-> NoParams]
    ELSE [err |-> None,
          params |-> [n \in {"target"} |-> resolved.table[ev.target_id]]]

\* Command._build_arguments of a slash command and of a context-menu command
build_arguments(command, ev) ==
    IF CommandDef(command).kind = "slash"
    THEN IF ~ev.has_options THEN [err |-> None, params |-> NoParams]
         ELSE LET resolved == parse_resolved_data(ev) IN
              IF resolved.err # None THEN [err |-> resolved.err, params |-> NoParams]
              ELSE BuildFrom(ev.options, 1, resolved.table, NoParams)
    ELSE LET resolved == parse_resolved_data(ev) IN
         IF resolved.err # None THEN [err |-> resolved.err, params |-> NoParams]
         ELSE IF ev.target_id \notin DOMAIN resolved.table
         THEN [err |-> "KeyError", params |-> NoParams]
         ELSE [err |-> None,
               params |-> [n \in {"target"} |-> resolved.table[ev.target_id]]]

\* ------------------------------------------------------ autocomplete handlers
\* Partial values and candidates are strings, held as sequences of characters.
Po == <<"p", "o">>
Pog == <<"p", "o", "g">>
Poggers == <<"p", "o", "g", "g", "e", "r", "s">>
Pogchamp == <<"p", "o", "g", "c", "h", "a", "m", "p">>
Pogc == <<"p", "o", "g", "c">>

\* str.startswith
startswith(x, prefix) ==
    /\ Len(prefix) <= Len(x)
    /\ SubSeq(x, 1, Len(prefix)) = prefix

\* command.func._autocomplete_handlers_ of pog: option name -> handler. The
\* handlers are those of examples/autocomplete.py, a plain function and a class
\* with a classmethod autocomplete, both synchronous, and a coroutine function.
OptionNames == {"some_option", "another_option", "third_option", "unbound"}
HasHandlers(command) == command = "k1"
autocomplete_handlers(command) ==
    [n \in {"some_option", "another_option", "third_option"} |->
        CASE n = "some_option" ->
                 [name |-> "autocomplete_some_option", is_class |-> FALSE, coroutine |-> FALSE]
          [] n = "another_option" ->
                 [name |-> "SomeClass", is_class |-> TRUE, coroutine |-> FALSE]
          [] n = "third_option" ->
                 [name |-> "autocomplete_third_option", is_class |-> FALSE, coroutine |-> TRUE]]

\* What a handler returns for a partial value
Candidates(handler, value) ==
    IF handler.name = "SomeClass"
    THEN SelectSeq(<<StrValue(Pog), StrValue(Poggers), StrValue(Pogchamp)>>,
                   LAMBDA option : startswith(option.v, value))
    ELSE <<IntValue(1), IntValue(2), IntValue(3)>>

\* The choices of the payload: one {name, value} pair per candidate
Choices(candidates) ==
    [k \in 1..Len(candidates) |->
        [name |-> str(candidates[k]), value |-> str(candidates[k])]]

\* ------------------------------------------------------------------- events
ModalEvents == [type : {MODAL_SUBMIT}, id : Submissions, custom_id : CustomIds]

ResolvedPool ==
    {NoData,
     [NoData EXCEPT !.users = {1}, !.members = {1}],
     [NoData EXCEPT !.users = {1}],
     [NoData EXCEPT !.roles = {1}, !.messages = {2}],
     [NoData EXCEPT !.users = {1}, !.members = {1}, !.roles = {1}, !.channels = {2}]}
OptionPool ==
    {<<>>,
     <<[name |-> "some_option", type |-> 4, value |-> 2]>>,
     <<[name |-> "flag", type |-> 5, value |-> 1]>>,
     <<[name |-> "who", type |-> 6, value |-> 1]>>,
     <<[name |-> "where", type |-> 7, value |-> 2]>>,
     <<[name |-> "file", type |-> 11, value |-> 1]>>,
     <<[name |-> "who", type |-> 8, value |-> 2],
       [name |-> "some_option", type |-> 4, value |-> 1]>>,
     <<[name |-> "some_option", type |-> 4, value |-> 1],
       [name |-> "who", type |-> 8, value |-> 1]>>}
Event(type, name, has_options, options, has_resolved, resolved, guild, target_id) ==
    [type |-> type, id |-> 1, name |-> name, has_options |-> has_options,
     options |-> options, has_resolved |-> has_resolved, resolved |-> resolved,
     guild |-> guild, target_id |-> target_id]
\* Invocations of a slash command (data.options and data.resolved) and of a
\* context-menu command (data.target_id and data.resolved), and a component event.
CommandEvents ==
    {Event(APPLICATION_COMMAND, name, TRUE, options, TRUE, resolved, guild, 0) :
        name \in {"pog", "stale"}, options \in OptionPool,
        resolved \in ResolvedPool, guild \in BOOLEAN}
    \cup {Event(APPLICATION_COMMAND, name, has_options, options, FALSE, NoData, TRUE, 0) :
        name \in {"pog", "stale"}, has_options \in BOOLEAN, options \in OptionPool}
    \cup {Event(APPLICATION_COMMAND, name, FALSE, <<>>, has_resolved, resolved, guild, target_id) :
        name \in {"quote", "bonk"}, has_resolved \in BOOLEAN,
        resolved \in ResolvedPool, guild \in BOOLEAN, target_id \in Snowflakes}
    \cup {Event(COMPONENT, "pog", FALSE, <<>>, FALSE, NoData, TRUE, 0)}

FocusPool ==
    {<<>>,
     <<[name |-> "some_option", value |-> Po, focused |-> TRUE]>>,
     <<[name |-> "some_option", value |-> Po, focused |-> FALSE]>>,
     <<[name |-> "some_option", value |-> Po, focused |-> FALSE],
       [name |-> "another_option", value |-> Pogc, focused |-> TRUE]>>,
     <<[name |-> "another_option", value |-> Po, focused |-> TRUE]>>,
     <<[name |-> "third_option", value |-> Po, focused |-> TRUE]>>,
     <<[name |-> "unbound", value |-> Po, focused |-> TRUE]>>}
AutocompleteEvents ==
    [type : {AUTOCOMPLETE}, id : {1}, name : CommandNames, options : FocusPool]

\* The application commands the gateway may deliver: invocations of a slash
\* command, with or without data.options and data.resolved, and of a
\* context-menu command
InboundResolved ==
    ResolvedPool \cup {[NoData EXCEPT !.attachments = {1}],
                       [NoData EXCEPT !.channels = {2}, !.roles = {2}]}
InboundEvents ==
    {ev \in
        {Event(APPLICATION_COMMAND, name, has_options, options, has_resolved, resolved, guild, 0) :
            name \in {"pog", "stale"}, has_options \in BOOLEAN, options \in OptionPool,
            has_resolved \in BOOLEAN, resolved \in InboundResolved, guild \in BOOLEAN}
        \cup {Event(APPLICATION_COMMAND, name, FALSE, <<>>, has_resolved, resolved, guild, target_id) :
            name \in {"quote", "bonk"}, has_resolved \in BOOLEAN,
            resolved \in InboundResolved, guild \in BOOLEAN, target_id \in Snowflakes} :
        /\ ev.has_options \/ ev.options = <<>>
        /\ ev.has_resolved \/ ev.resolved = NoData}
NoInbound == Event(0, None, FALSE, <<>>, FALSE, NoData, FALSE, 0)

\* ------------------------------------------------------- handler signatures
\* The annotations a parameter may have: none, supported and unsupported
\* classes, ranges, unions and literals
Annotations ==
    {Empty}
    \cup {Class(t) : t \in {"str", "int", "Member", "TextChannel", "SomeClass", "StageChannel"}}
    \cup {RangeOf(NoneValue, IntValue(2)), RangeOf(IntValue(0), FloatValue(1))}
    \cup {UnionOf(args) : args \in {<<"TextChannel", "VoiceChannel">>,
                                     <<"TextChannel", "VoiceChannel", "CategoryChannel">>,
                                     <<"TextChannel", "int">>,
                                     <<"TextChannel", "StageChannel">>}}
    \cup {LiteralOf(<<IntValue(1), IntValue(2)>>), LiteralOf(<<StrValue(Pog), StrValue(Po)>>)}
ParameterNames == <<"some_option", "another_option", "third_option", "fourth_option">>

\* The parameters of a handler after cog and context
Signatures ==
    UNION {{[i \in 1..n |-> Parameter(ParameterNames[i], anns[i], defaults[i])] :
               anns \in [1..n -> Annotations], defaults \in [1..n -> BOOLEAN]} :
           n \in 0..MaxParams}

\* pog before its payload is first built: its handler's parameters, the names
\* @describe gave descriptions, and no description looked up yet
Funcs ==
    [parameters : Signatures, param_desc : {{}, {"some_option"}, {"ghost"}},
     parameter_descriptions : {NoDescriptions}]

\* pog of examples/main.py and pog of examples/autocomplete.py
MainPog ==
    [parameters |-> <<>>, param_desc |-> {}, parameter_descriptions |-> NoDescriptions]
AutocompletePog ==
    [parameters |-> <<Parameter("some_option", Class("int"), TRUE),
                      Parameter("another_option", Class("SomeClass"), TRUE)>>,
     param_desc |-> {}, parameter_descriptions |-> NoDescriptions]

\* What the command's handler function does when it is called
Outcomes == {"ok", "CommandError", "ValueError"}

\* --------------------------------------------------------- the dispatch router
Raise(s, listener, e) == [s EXCEPT !.raised[listener] = e]

NoError == [kind |-> None, original |-> None]

\* command_error_wrapper as it would be without its second except clause
command_error_wrapper_unwrapped(h) ==
    IF h = "ok" THEN NoError ELSE [kind |-> h, original |-> None]

\* command_error_wrapper: what it raises for what the handler did
command_error_wrapper(h) ==
    IF h = "ok" THEN NoError
    ELSE IF h = "CommandError" THEN [kind |-> "CommandError", original |-> None]
    ELSE [kind |-> "CommandInvokeError", original |-> h]

\* Bot._internal_interaction_handler on a modal submission: self.bot is read,
\* and a Bot has no attribute bot
BotModalSubmit(s, ev) == Raise(s, "bot", "AttributeError")

\* except commands.CommandError: the errors the dispatcher hands to the hook
IsCommandError(e) == e.kind \in {"CommandError", "CommandInvokeError"}

\* Bot._internal_interaction_handler on an application command
BotCommand(s, ev, h) ==
    LET command == get_application_command(ev.name) IN
    IF command = None THEN s
    ELSE LET args == build_arguments(command, ev) IN
         IF args.err # None THEN Raise(s, "bot", args.err)
         ELSE LET called == [s EXCEPT !.invoked = Append(@,
                                 [command |-> command, params |-> args.params,
                                  by |-> "bot", did |-> h])]
                  e == command_error_wrapper(h)
              IN IF e = NoError THEN called
                 ELSE IF ~IsCommandError(e) THEN Raise(called, "bot", e.kind)
                 ELSE [called EXCEPT !.hooks = Append(@,
                          [cog |-> CommandDef(command).cog, command |-> command,
                           error |-> e])]

BotHandler(s, ev, h) ==
    IF ev.type = MODAL_SUBMIT THEN BotModalSubmit(s, ev)
    ELSE IF ev.type # APPLICATION_COMMAND THEN s
    ELSE BotCommand(s, ev, h)

\* CogModalSubmit as it would be with the table cleared instead of popped
CogModalSubmitClears(s, c, ev) ==
    LET modal == s.modals[ev.custom_id]
        popped == [s EXCEPT !.hasModals = TRUE, !.modals = [x \in CustomIds |-> None]]
    IN IF modal = None THEN popped
       ELSE IF done(popped.futures[response[modal]])
       THEN Raise(popped, c, "InvalidStateError")
       ELSE [popped EXCEPT !.futures[response[modal]] = set_result(@, ev.id)]

\* CogModalSubmit as it would be with the custom_id given as the result
CogModalSubmitWrongResult(s, c, ev) ==
    LET modal == s.modals[ev.custom_id]
        popped == [s EXCEPT !.hasModals = TRUE, !.modals[ev.custom_id] = None]
    IN IF modal = None THEN popped
       ELSE IF done(popped.futures[response[modal]])
       THEN Raise(popped, c, "InvalidStateError")
       ELSE [popped EXCEPT !.futures[response[modal]] = set_result(@, ev.custom_id)]

\* Cog._internal_interaction_handler on a modal submission: the modal is popped
\* from the table and its future gets the interaction as its result.
CogModalSubmit(s, c, ev) ==
    LET modal == s.modals[ev.custom_id]
        popped == [s EXCEPT !.hasModals = TRUE, !.modals[ev.custom_id] = None]
    IN IF modal = None THEN popped
       ELSE IF done(popped.futures[response[modal]])
       THEN Raise(popped, c, "InvalidStateError")
       ELSE [popped EXCEPT !.futures[response[modal]] = set_result(@, ev.id)]

\* interaction.response.send_autocomplete_result(payload)
send_autocomplete_result(s, c, payload) ==
    [s EXCEPT !.sent = Append(@, [by |-> c, payload |-> payload])]

\* [option for option in options if option.get("focused", None)]
Focused(options) == SelectSeq(options, LAMBDA option : option.focused)

\* Cog._internal_interaction_handler on an autocomplete request
CogAutocomplete(s, c, ev) ==
    LET command == commands[c][ev.name]
        focused == Focused(ev.options)
    IN IF focused = <<>> THEN Raise(s, c, "IndexError")
       ELSE IF command = None THEN Raise(s, c, "AttributeError")
       ELSE IF ~HasHandlers(command) THEN Raise(s, c, "AttributeError")
       ELSE IF focused[1].name \notin DOMAIN autocomplete_handlers(command)
       THEN Raise(s, c, "KeyError")
       ELSE LET handler == autocomplete_handlers(command)[focused[1].name]
                called == [s EXCEPT !.completed = Append(@,
                              [by |-> c, handler |-> handler.name,
                               method |-> IF handler.is_class THEN "autocomplete" ELSE "call",
                               command |-> command, value |-> focused[1].value])]
            IN IF ~handler.coroutine THEN Raise(called, c, "TypeError")
               ELSE send_autocomplete_result(called, c,
                        [type |-> AUTOCOMPLETE_RESULT,
                         data |-> [choices |-> Choices(Candidates(handler, focused[1].value))]])

\* CogCommand as it would be with _build_arguments called as the Bot calls it
CogCommandInvokes(s, c, ev, h) ==
    LET command == commands[c][ev.name] IN
    IF command = None THEN s
    ELSE IF build_arguments(command, ev).err # None
         THEN Raise(s, c, build_arguments(command, ev).err)
         ELSE [s EXCEPT !.invoked = Append(@,
                  [command |-> command, params |-> build_arguments(command, ev).params,
                   by |-> c, did |-> h])]

\* Cog._internal_interaction_handler on an application command: the call of
\* _build_arguments passes one argument more than the method takes
CogCommand(s, c, ev, h) ==
    LET command == commands[c][ev.name] IN
    IF command = None THEN s
    ELSE Raise(s, c, "TypeError")

CogHandler(s, c, ev, h) ==
    IF ev.type = MODAL_SUBMIT THEN CogModalSubmit(s, c, ev)
    ELSE IF ev.type = AUTOCOMPLETE THEN CogAutocomplete(s, c, ev)
    ELSE IF ev.type # APPLICATION_COMMAND THEN s
    ELSE CogCommand(s, c, ev, h)

\* The listeners of the loaded cogs from cog k on, in the order they were added
RECURSIVE CogHandlers(_, _, _, _)
CogHandlers(s, k, ev, h) ==
    IF k > Len(Cogs) THEN s
    ELSE IF Cogs[k] \notin loaded THEN CogHandlers(s, k + 1, ev, h)
    ELSE CogHandlers(CogHandler(s, Cogs[k], ev, h), k + 1, ev, h)

\* One on_interaction event: the Bot's listener, then each loaded cog's listener
Dispatch(ev, h) ==
    CogHandlers(
        BotHandler([hasModals |-> hasModals, modals |-> modals, futures |-> futures,
                    raised |-> NoRaised, invoked |-> <<>>,
                    hooks |-> <<>>, completed |-> <<>>, sent |-> <<>>], ev, h),
        1, ev, h)

OnInteraction(ev, h) ==
    LET d == Dispatch(ev, h) IN
    /\ event' = [type |-> ev.type,
                 key |-> IF ev.type = MODAL_SUBMIT THEN ev.custom_id ELSE ev.name,
                 focused |-> IF ev.type = AUTOCOMPLETE THEN Focused(ev.options) ELSE <<>>]
    /\ hasModals' = d.hasModals
    /\ modals' = d.modals
    /\ futures' = d.futures
    /\ raised' = d.raised
    /\ invoked' = d.invoked
    /\ hooks' = d.hooks
    /\ completed' = d.completed
    /\ sent' = d.sent
    /\ ret' = NoReturns /\ err' = None
    /\ UNCHANGED <<response, task, responded, inflight, registryVars, extVars>>

\* The three kinds of inbound event
ModalSubmission == \E ev \in ModalEvents : OnInteraction(ev, "ok")
CommandInvocation == \E ev \in CommandEvents, h \in Outcomes : OnInteraction(ev, h)
AutocompleteRequest == \E ev \in AutocompleteEvents : OnInteraction(ev, "ok")

\* The gateway delivers the inbound application command
Deliver == inbox.type # 0 /\ \E h \in Outcomes : OnInteraction(inbox, h)

\* The gateway connection Bot.start opened delivers it
Gateway == start = "connected" /\ Deliver

\* The state after Bot() and add_cog of the cogs, before start
InitState ==
    /\ hasModals = FALSE
    /\ modals = [c \in CustomIds |-> None]
    /\ response = [m \in Modals |-> IF m = "m1" THEN 1 ELSE 2]
    /\ futures = <<PendingFuture, PendingFuture>>
    /\ task = [t \in Tasks |-> Idle]
    /\ ret = NoReturns
    /\ responded = [i \in Interactions |-> FALSE]
    /\ inflight = [i \in Interactions |-> FALSE]
    /\ err = None
    /\ event = NoLastEvent
    /\ raised = NoRaised
    /\ invoked = <<>>
    /\ hooks = <<>>
    /\ completed = <<>>
    /\ sent = <<>>
    /\ application_id = None
    /\ commands = NoTables
    /\ loaded = CogSet
    /\ built = NotBuilt
    /\ made = NotMade
    /\ outage = {}
    /\ bulk = NoBulk
    /\ created = [i \in Interactions |-> 0]
    /\ http = NoHttp
    /\ start = "idle"
    /\ coro = [r \in Coroutines |-> NotBegun]

\* Every interaction a response method is called on is an application command
Commands == [i \in Interactions |-> APPLICATION_COMMAND]

Init ==
    /\ InitState /\ platform = NoPayloads /\ inbox = NoInbound /\ func = MainPog
    /\ parent_type = Commands

NextModal ==
    \/ \E m \in Modals : Reset(m)
    \/ \E t \in Tasks, m \in Modals : Wait(t, m)
    \/ \E t \in Tasks : WaitResume(t)
    \/ \E t \in Tasks : WaitTimeout(t)
    \/ \E i \in Interactions, m \in Modals : SendModalCall(i, m)
    \/ \E i \in Interactions : SendModalReturn(i)
    \/ \E i \in Interactions : SendModalFail(i)
    \/ ModalSubmission

SpecModal == Init /\ [][NextModal]_vars

NextCommand ==
    \/ FetchApplicationInfo
    \/ SyncCommands
    \/ \E g \in Scopes : DeleteAllCommands(g)
    \/ CommandInvocation
    \/ AutocompleteRequest

SpecCommand == Init /\ [][NextCommand]_vars

\* The argument resolver: one inbound application command, delivered before or
\* after the bot has started and synced
InitResolve ==
    /\ InitState /\ platform = NoPayloads /\ inbox \in InboundEvents /\ func = MainPog
    /\ parent_type = Commands

NextResolve ==
    \/ FetchApplicationInfo
    \/ SyncCommands
    \/ Deliver

SpecResolve == InitResolve /\ [][NextResolve]_vars

\* The option schema builder: pog with any of the signatures
InitSchema ==
    /\ InitState /\ platform = NoPayloads /\ inbox = NoInbound /\ func \in Funcs
    /\ parent_type = Commands

NextSchema ==
    \/ FetchApplicationInfo
    \/ SyncCommands
    \/ BuildCommandPayload

SpecSchema == InitSchema /\ [][NextSchema]_vars

\* The construction of ranges
RangeForms == {"init", "getitem", "getitem_max"}
NextRange ==
    \E form \in RangeForms, min \in Numbers \cup {NoneValue}, max \in Numbers :
        MakeRange(form, min, max)

SpecRange == Init /\ [][NextRange]_vars

\* The registry and the platform: syncs, deletions and reloads, with pog of
\* either example. The platform keeps the commands of earlier runs of the bot:
\* a scope may hold a command that no cog defines any more.
InitRegistry ==
    /\ InitState
    /\ platform \in [Scopes -> {{}, {"stale"}}]
    /\ inbox = NoInbound
    /\ func \in {MainPog, AutocompletePog}
    /\ parent_type = Commands

NextRegistry ==
    \/ FetchApplicationInfo
    \/ SyncCommands
    \/ \E g \in Scopes : DeleteAllCommands(g)
    \/ \E cogs \in SUBSET CogSet : ReloadAllExtensions(cogs)

SpecRegistry == InitRegistry /\ [][NextRegistry]_vars

\* Syncs against a platform that may fail: pog without parameters, pog of
\* examples/autocomplete.py, or pog with one parameter that builds or fails to
\* build; any cogs loaded by a reload, the plain commands.Cog among them
SyncFuncs ==
    {MainPog, AutocompletePog}
    \cup {f \in Funcs :
            /\ Len(f.parameters) = 1
            /\ f.parameters[1].ann \in {Class("str"), Empty,
                                        UnionOf(<<"TextChannel", "StageChannel">>)}}

InitSync ==
    /\ InitState
    /\ platform \in {NoPayloads, [g \in Scopes |-> {"stale"}]}
    /\ inbox = NoInbound
    /\ func \in SyncFuncs
    /\ parent_type = Commands

NextSync ==
    \/ FetchApplicationInfo
    \/ SyncCommands
    \/ \E g \in Scopes : DeleteAllCommands(g)
    \/ \E cogs \in SUBSET AllCogs : ReloadAllExtensions(cogs)
    \/ \E scopes \in SUBSET Scopes : Outage(scopes)

SpecSync == InitSync /\ [][NextSync]_vars

\* Bot.start from its call to the open connection, with pog of either example,
\* against a platform that may fail, and the events the connection delivers
InitStart ==
    /\ InitState
    /\ platform = NoPayloads
    /\ inbox \in InboundEvents
    /\ func \in {MainPog, AutocompletePog}
    /\ parent_type = Commands

NextStart ==
    \/ FetchApplicationInfo
    \/ StartRaises
    \/ StartSyncCommands
    \/ \E answer \in Answers : StartConnect(answer)
    \/ Gateway
    \/ \E scopes \in SUBSET Scopes : Outage(scopes)

SpecStart == InitStart /\ [][NextStart]_vars

\* The response methods on interactions of any type, called by the application
\* one after another; a send_modal may be waiting for its answer meanwhile
InitRespond ==
    /\ InitState /\ platform = NoPayloads /\ inbox = NoInbound /\ func = MainPog
    /\ parent_type \in [Interactions -> InteractionTypes]

NextRespond ==
    \/ \E i \in Interactions, mixed \in BOOLEAN, answer \in Answers :
           SendMessage(i, mixed, answer)
    \/ \E i \in Interactions, answer \in Answers : Defer(i, answer)
    \/ \E i \in Interactions, answer \in Answers : Pong(i, answer)
    \/ \E i \in Interactions, mixed \in BOOLEAN, answer \in Answers :
           EditMessage(i, mixed, answer)
    \/ \E i \in Interactions, mixed \in BOOLEAN, answer \in Answers, fetched \in Answers :
           ContextSend(i, mixed, answer, fetched)
    \/ \E i \in Interactions, answer \in Answers : ContextDefer(i, answer)
    \/ \E i \in Interactions, m \in Modals : SendModalCall(i, m)
    \/ \E i \in Interactions : SendModalReturn(i)
    \/ \E i \in Interactions : SendModalFail(i)

SpecRespond == InitRespond /\ [][NextRespond]_vars

\* The response methods of one interaction run as coroutines that interleave at
\* their awaits; the interaction is a command's or a component's.
InitRace ==
    /\ InitState /\ platform = NoPayloads /\ inbox = NoInbound /\ func = MainPog
    /\ parent_type \in [Interactions -> {APPLICATION_COMMAND, COMPONENT}]

NextRace ==
    \/ \E r \in Coroutines, i \in Interactions, op \in Operations, m \in Modals :
           Begin(r, i, op, m)
    \/ \E r \in Coroutines, answer \in Answers : Resume(r, answer)

SpecRace == InitRace /\ [][NextRace]_vars

\* ----------------------------------------------------------------- claims
Fulfilled(v) == [state |-> "FINISHED", result |-> v, exception |-> None]

\* C1: a submission whose custom_id is in the pending-modal table makes that
\* modal's future fulfilled with the submission's interaction, removes the entry
\* and raises no error in any cog's listener.
C1_SubmissionFulfils ==
    [][\A ev \in ModalEvents :
        (modals[ev.custom_id] # None /\ OnInteraction(ev, "ok")) =>
            /\ futures'[response[modals[ev.custom_id]]] = Fulfilled(ev.id)
            /\ modals'[ev.custom_id] = None
            /\ \A c \in CogSet : raised'[c] = None]_vars

\* C2: a wait that times out raises TimeoutError to its caller and leaves the
\* future it waited on unfulfilled and not cancelled.
C2_TimeoutKeepsSlot ==
    [][\A t \in Tasks :
        WaitTimeout(t) =>
            /\ ret'[t].kind = "TimeoutError"
            /\ ~done(futures'[task[t].fut])
            /\ ~cancelled(futures'[task[t].fut])]_vars

\* C3: a submission whose custom_id is not in the pending-modal table changes no
\* future and no table entry, and no listener raises an error.
C3_UnknownSubmissionNoOp ==
    [][\A ev \in ModalEvents :
        (modals[ev.custom_id] = None /\ OnInteraction(ev, "ok")) =>
            /\ futures' = futures
            /\ modals' = modals
            /\ \A l \in Listeners : raised'[l] = None]_vars

\* C4: a submission for a pending modal whose future a caller waits on fulfils
\* that future with the event's interaction and leaves the caller to be resumed;
\* the resumed caller gets the future's interaction; and a wait on a fulfilled
\* modal returns that interaction at once, without suspending.
C4_WaiterGetsSubmission ==
    [][/\ \A ev \in ModalEvents, t \in Tasks :
            (/\ modals[ev.custom_id] # None
             /\ task[t].pc = "waiting"
             /\ task[t].fut = response[modals[ev.custom_id]]
             /\ ~done(futures[task[t].fut])
             /\ OnInteraction(ev, "ok")) =>
                /\ futures'[task[t].fut] = Fulfilled(ev.id)
                /\ task'[t] = task[t]
       /\ \A t \in Tasks, v \in Submissions :
            (/\ task[t].pc = "waiting"
             /\ futures[task[t].fut] = Fulfilled(v)
             /\ WaitResume(t)) =>
                /\ ret'[t] = [kind |-> "value", value |-> v, suspended |-> TRUE]
                /\ task'[t].pc = "idle"
       /\ \A t \in Tasks, m \in Modals, v \in Submissions :
            (/\ futures[response[m]] = Fulfilled(v)
             /\ Wait(t, m)) =>
                /\ ret'[t] = [kind |-> "value", value |-> v, suspended |-> FALSE]
                /\ task'[t].pc = "idle"]_vars

\* A caller that suspended in wait has been resumed with the interaction of the
\* submission that fulfilled its modal, whose table entry is gone.
C4_Witness ==
    \E t \in Tasks, m \in Modals :
        /\ ret[t].kind = "value"
        /\ ret[t].suspended
        /\ futures[response[m]] = Fulfilled(ret[t].value)
        /\ modals[custom_id(m)] = None
        /\ \A c \in CogSet : raised[c] = None

\* C5: reset gives an unfinished future the exception CancelledError, which a
\* caller suspended on it is then resumed with, leaves a finished or cancelled
\* future as it is, and installs a new pending future, so that is_done() is false.
C5_Reset ==
    [][/\ \A m \in Modals :
            Reset(m) =>
                /\ ~done(futures[response[m]]) =>
                       futures'[response[m]] =
                           [state |-> "FINISHED", result |-> None,
                            exception |-> "CancelledError"]
                /\ done(futures[response[m]]) =>
                       futures'[response[m]] = futures[response[m]]
                /\ response'[m] # response[m]
                /\ futures'[response'[m]] = PendingFuture
                /\ \A n \in Modals \ {m} : response'[n] = response[n]
                /\ task' = task
       /\ \A t \in Tasks :
            (/\ task[t].pc = "waiting"
             /\ futures[task[t].fut].state = "FINISHED"
             /\ futures[task[t].fut].exception = "CancelledError"
             /\ WaitResume(t)) =>
                ret'[t] = [kind |-> "CancelledError", value |-> None, suspended |-> TRUE]]_vars

\* A caller suspended in wait was woken with CancelledError by a reset, and the
\* modal has a new pending future.
C5_Witness ==
    \E t \in Tasks, m \in Modals, f \in 1..Len(futures) :
        /\ ret[t].kind = "CancelledError"
        /\ ret[t].suspended
        /\ futures[f].exception = "CancelledError"
        /\ response[m] > f
        /\ ~done(futures[response[m]])

\* C6: a submission, a send or a timeout for one modal leaves the future and the
\* table entry of every modal with another custom_id as they were.
C6_Independent ==
    [][/\ \A ev \in ModalEvents :
            OnInteraction(ev, "ok") =>
                \A m \in Modals : custom_id(m) # ev.custom_id =>
                    /\ futures'[response[m]] = futures[response[m]]
                    /\ modals'[custom_id(m)] = modals[custom_id(m)]
       /\ \A i \in Interactions, n \in Modals :
            SendModalCall(i, n) =>
                \A m \in Modals : custom_id(m) # custom_id(n) =>
                    /\ futures'[response[m]] = futures[response[m]]
                    /\ modals'[custom_id(m)] = modals[custom_id(m)]
       /\ \A t \in Tasks :
            WaitTimeout(t) =>
                /\ modals' = modals
                /\ \A m \in Modals : response[m] # task[t].fut =>
                       futures'[response[m]] = futures[response[m]]]_vars

\* Two modals were pending together; one has been fulfilled by its submission
\* and the other is still pending and still in the table.
C6_Witness ==
    /\ modals["a"] = None
    /\ futures[response["m1"]].state = "FINISHED"
    /\ futures[response["m1"]].result \in Submissions
    /\ modals["b"] = "m2"
    /\ futures[response["m2"]] = PendingFuture
\* The handler invocations of the last event that raised, in order
Failed == SelectSeq(invoked, LAMBDA call : call.did # "ok")

\* C7: every exception a command handler raises reaches the hook of the
\* command's cog exactly once, a CommandError as it is and any other exception
\* inside a CommandInvokeError, and no listener raises the handler's exception.
C7_HandlerErrorsReachHook ==
    /\ hooks = [k \in 1..Len(Failed) |->
                   [cog |-> CommandDef(Failed[k].command).cog,
                    command |-> Failed[k].command,
                    error |-> IF Failed[k].did = "CommandError"
                              THEN [kind |-> "CommandError", original |-> None]
                              ELSE [kind |-> "CommandInvokeError",
                                    original |-> Failed[k].did]]]
    /\ \A l \in Listeners :
           raised[l] \notin {"CommandError", "ValueError", "CommandInvokeError"}

\* The handler of pog raised a ValueError, and the hook of its cog got it once,
\* wrapped in a CommandInvokeError.
C7_Witness ==
    /\ Len(invoked) = 1
    /\ invoked[1].command = "k1"
    /\ invoked[1].did = "ValueError"
    /\ hooks = <<[cog |-> "c1", command |-> "k1",
                  error |-> [kind |-> "CommandInvokeError", original |-> "ValueError"]]>>

\* C8: an application-command event whose name is in no cog's table invokes no
\* handler, calls no hook, sends nothing and raises no error.
C8_UnknownCommandNoOp ==
    (/\ event.type = APPLICATION_COMMAND
     /\ \A c \in CogSet : commands[c][event.key] = None) =>
        /\ invoked = <<>>
        /\ hooks = <<>>
        /\ completed = <<>>
        /\ sent = <<>>
        /\ raised = NoRaised

\* After a sync, an application-command event named a command no cog defines.
C8_Witness ==
    /\ event.type = APPLICATION_COMMAND
    /\ event.key = "stale"
    /\ commands["c1"]["pog"] = "k1"
    /\ invoked = <<>>
    /\ raised = NoRaised

\* C9: a cog that gets an autocomplete request naming a command its table lacks,
\* or one with no focused option, raises no error, calls no completion handler
\* and sends no response.
C9_AutocompleteMissNoOp ==
    \A c \in CogSet :
        (/\ event.type = AUTOCOMPLETE
         /\ (commands[c][event.key] = None \/ event.focused = <<>>)) =>
            /\ raised[c] = None
            /\ \A k \in 1..Len(completed) : completed[k].by # c
            /\ \A k \in 1..Len(sent) : sent[k].by # c

\* The option of a command that a completion handler is bound to
Bound(command, option) ==
    /\ HasHandlers(command)
    /\ option \in DOMAIN autocomplete_handlers(command)

\* C10: on an autocomplete request naming a command of the cog, with exactly one
\* focused option and a handler bound to it, the cog calls that handler once
\* with the partial value and sends one response of type 8 whose choices are the
\* {name, value} pairs of the returned candidates' string forms, in order.
C10_AutocompleteResponds ==
    \A c \in CogSet :
        (/\ event.type = AUTOCOMPLETE
         /\ commands[c][event.key] # None
         /\ Len(event.focused) = 1
         /\ Bound(commands[c][event.key], event.focused[1].name)) =>
            LET command == commands[c][event.key]
                handler == autocomplete_handlers(command)[event.focused[1].name]
                returned == Candidates(handler, event.focused[1].value)
            IN /\ SelectSeq(completed, LAMBDA call : call.by = c) =
                      <<[by |-> c, handler |-> handler.name,
                         method |-> IF handler.is_class THEN "autocomplete" ELSE "call",
                         command |-> command, value |-> event.focused[1].value]>>
               /\ SelectSeq(sent, LAMBDA r : r.by = c) =
                      <<[by |-> c,
                         payload |-> [type |-> 8,
                                      data |-> [choices |-> [k \in 1..Len(returned) |->
                                          [name |-> str(returned[k]),
                                           value |-> str(returned[k])]]]]]>>
\* The inbound application command was delivered, and a command of the given
\* kind is registered under its name
Delivered(kind) ==
    /\ event.type = APPLICATION_COMMAND
    /\ get_application_command(inbox.name) # None
    /\ CommandDef(get_application_command(inbox.name)).kind \in kind

\* The option types that refer to an entity: user, channel, role, attachment
EntityTypes == {6, 7, 8, 11}

\* The ids that data.resolved has an entry for
ResolvedIds(ev) ==
    IF ~ev.has_resolved THEN {}
    ELSE ev.resolved.users \cup ev.resolved.channels \cup ev.resolved.messages
         \cup ev.resolved.roles \cup ev.resolved.attachments

\* data.resolved is well formed: a guild event, a member entry for every user
WellFormed(ev) ==
    ~ev.has_resolved \/ (ev.guild /\ ev.resolved.users \subseteq ev.resolved.members)

\* The arguments the claim gives the options: a primitive's value as it is, an
\* entity reference's entity object
Resolved(ev) ==
    [n \in {ev.options[i].name : i \in 1..Len(ev.options)} |->
        LET i == CHOOSE j \in 1..Len(ev.options) :
                     /\ ev.options[j].name = n
                     /\ \A k \in (j + 1)..Len(ev.options) : ev.options[k].name # n
        IN IF ev.options[i].type \in EntityTypes
           THEN parse_resolved_data(ev).table[ev.options[i].value]
           ELSE Primitive(ev.options[i].value)]

\* C11: a slash-command invocation whose entity references all have an entry in
\* data.resolved invokes the handler with one argument per raw option, a
\* primitive option's value unchanged and a user, channel, role or attachment
\* option's value replaced by its entity object.
C11_OptionsResolved ==
    (/\ Delivered({"slash"})
     /\ inbox.has_options
     /\ WellFormed(inbox)
     /\ \A i \in 1..Len(inbox.options) :
            inbox.options[i].type \in EntityTypes =>
                inbox.options[i].value \in ResolvedIds(inbox)) =>
        /\ Len(invoked) = 1
        /\ invoked[1].params = Resolved(inbox)

C13_AbsentEntityIsFatal ==
    (/\ Delivered({"slash", "message", "user"})
     /\ IF CommandDef(get_application_command(inbox.name)).kind = "slash"
        THEN /\ inbox.has_options
             /\ \E i \in 1..Len(inbox.options) :
                    /\ inbox.options[i].type \in EntityTypes
                    /\ inbox.options[i].value \notin ResolvedIds(inbox)
        ELSE inbox.target_id \notin ResolvedIds(inbox)) =>
        /\ raised["bot"] # None
        /\ invoked = <<>>
        /\ hooks = <<>>
\* The parameter of pog that an option of the payload is for
Declared(option) ==
    func.parameters[CHOOSE i \in 1..Len(func.parameters) :
                        func.parameters[i].name = option.name]

\* An annotation of a supported type
Supported(ann) ==
    \/ ann.kind = "class" /\ ann.t \in DOMAIN command_type_map
    \/ ann.kind = "Range"
    \/ ann.kind = "Literal"
    \/ ann.kind = "Union" /\ \A i \in 1..Len(ann.args) : ann.args[i] \in DOMAIN channel_filter

\* The parameters in the order the claim gives their options: those without a
\* default, then those with one, each group in the order of declaration
RequiredFirst ==
    SelectSeq(func.parameters, LAMBDA param : ~param.has_default)
        \o SelectSeq(func.parameters, LAMBDA param : param.has_default)

\* C14: for a signature whose parameters all have supported types, the payload
\* has one option per parameter, named after it and required exactly when the
\* parameter has no default, the required options first and each group in the
\* order of declaration.
C14_OneOptionPerParameter ==
    (/\ built.called
     /\ \A k \in func.param_desc :
            \E i \in 1..Len(func.parameters) : func.parameters[i].name = k
     /\ \A i \in 1..Len(func.parameters) : Supported(func.parameters[i].ann)) =>
        /\ built.err = None
        /\ Len(built.options) = Len(func.parameters)
        /\ \A i \in 1..Len(built.options) :
               /\ built.options[i].name = RequiredFirst[i].name
               /\ "required" \in built.options[i].keys <=> ~RequiredFirst[i].has_default

\* A payload was built for a signature whose first parameter has a default and
\* whose second has none: the second parameter's option comes first.
C14_Witness ==
    /\ built.called /\ built.err = None
    /\ Len(func.parameters) = 2
    /\ func.parameters[1].has_default /\ ~func.parameters[2].has_default
    /\ built.options[1].name = "another_option"
    /\ "required" \in built.options[1].keys
    /\ "required" \notin built.options[2].keys

\* C15: the option of a Range parameter has the range's max as max_value and,
\* when the range has a min, that min as min_value; when the range has no min
\* the option has no min_value key.
C15_RangeBounds ==
    (built.called /\ built.err = None) =>
        \A i \in 1..Len(built.options) :
            Declared(built.options[i]).ann.kind = "Range" =>
                LET range == Declared(built.options[i]).ann.range IN
                /\ "max_value" \in built.options[i].keys
                /\ built.options[i].max_value = range.max
                /\ IF range.min # NoneValue
                   THEN /\ "min_value" \in built.options[i].keys
                        /\ built.options[i].min_value = range.min
                   ELSE "min_value" \notin built.options[i].keys

\* C16: in every option of a payload, min_value and max_value occur only with
\* wire type 4 or 10, choices only for a Literal parameter, and channel_types
\* only with wire type 7.
C16_KeysFitType ==
    built.called =>
        \A i \in 1..Len(built.options) :
            LET option == built.options[i] IN
            /\ option.keys \cap {"min_value", "max_value"} # {} => option.type \in {4, 10}
            /\ "choices" \in option.keys => Declared(option).ann.kind = "Literal"
            /\ "channel_types" \in option.keys => option.type = 7

\* A payload with a float Range option, which has bounds and wire type 10, and
\* a channel union option, which has a channel_types filter and wire type 7
C16_Witness ==
    /\ built.called
    /\ Len(built.options) = 2
    /\ "max_value" \in built.options[1].keys /\ built.options[1].type = 10
    /\ "channel_types" \in built.options[2].keys /\ built.options[2].type = 7

\* C17: a Range that was constructed has min < max when it has a min; a
\* construction with min >= max raises ValueError and gives no Range; one with no
\* min gives the Range of any max.
C17_RangeOrdered ==
    made.form # None =>
        /\ made.range.err = None =>
               made.range.min = NoneValue \/ made.range.min.v < made.range.max.v
        /\ (made.min # NoneValue /\ made.min.v >= made.max.v) =>
               made.range = [NoRange EXCEPT !.err = "ValueError"]
        /\ made.min = NoneValue =>
               made.range = [err |-> None, min |-> NoneValue, max |-> made.max]

\* Range[2, 2] was evaluated and raised ValueError
C17_Witness ==
    /\ made.form = "getitem"
    /\ made.min = IntValue(2) /\ made.max = IntValue(2)
    /\ made.range.err = "ValueError"

\* A signature with one of the four defects: a parameter with no annotation, a
\* class that is not in the type map, a union with a member that is no channel,
\* a description of a name that is no parameter
Defective(f) ==
    \/ \E i \in 1..Len(f.parameters) :
          LET ann == f.parameters[i].ann IN
          \/ ann.kind = "empty"
          \/ ann.kind = "class" /\ ann.t \notin DOMAIN command_type_map
          \/ ann.kind = "Union" /\ \E j \in 1..Len(ann.args) : ann.args[j] \notin GuildChannels
    \/ \E k \in f.param_desc : \A i \in 1..Len(f.parameters) : f.parameters[i].name # k

\* C18: building the payload of a defective signature raises and gives no
\* payload, and a sync_commands that meets it raises and uploads nothing.
C18_DefectFailsBuild ==
    [][Defective(func) =>
          /\ built'.called => (built'.err # None /\ built'.keys = {})
          /\ (application_id # None /\ SyncCommands) =>
                 (err' # None /\ platform' = platform)]_vars

\* sync_commands has failed on a defective pog: pog is in its cog's table, the
\* command after it is not, and no scope has any command.
C18_Witness ==
    /\ Defective(func)
    /\ application_id # None
    /\ err # None
    /\ commands["c1"]["pog"] = "k1"
    /\ commands["c1"]["quote"] = None
    /\ platform = NoPayloads
\* The names of the commands the loaded cogs' tables hold for a scope
Registry(tables, cogs, g) ==
    {n \in CommandNames :
        \E c \in cogs : tables[c][n] # None /\ CommandDef(tables[c][n]).guild_id = g}

\* C19: after a sync_commands that raised nothing, every scope of the platform
\* holds exactly the commands the registry holds for that scope.
C19_SyncOverwrites ==
    [][(/\ (SyncCommands \/ \E cogs \in SUBSET CogSet : ReloadAllExtensions(cogs))
        /\ err' = None) =>
           \A g \in Scopes : platform'[g] = Registry(commands', loaded', g)]_vars

\* C20: sync_commands called while application_id is not set raises
\* RuntimeError, changes no cog's table and uploads nothing.
C20_SyncNeedsIdentity ==
    [][(application_id = None /\ SyncCommands) =>
           /\ err' = "RuntimeError"
           /\ commands' = commands
           /\ platform' = platform]_vars

\* sync_commands has raised RuntimeError before the application's identity was
\* fetched, and every table is as it was.
C20_Witness ==
    /\ application_id = None
    /\ err = "RuntimeError"
    /\ loaded = CogSet
    /\ commands = NoTables

\* The platform answers the bulk upserts of the scopes of the last calls now as
\* it answered them then
AnswersAsBefore ==
    \A i \in 1..Len(bulk.calls) : bulk.calls[i].raised <=> bulk.calls[i].scope \in outage

\* C21: sync_commands called right after a sync_commands, with the same cogs
\* loaded, the identity known as before and the platform answering as before,
\* issues the same bulk upserts in the same order with the same payloads, and
\* leaves every cog's table as it was.
C21_ResyncIdempotent ==
    [][(/\ SyncCommands
        /\ bulk.by = "sync_commands"
        /\ (bulk.err = "RuntimeError") <=> (application_id = None)
        /\ AnswersAsBefore) =>
           /\ bulk' = bulk
           /\ commands' = commands]_vars

\* A sync_commands has uploaded both scopes, pog with an option whose
\* description was looked up, and has filled the tables: the next sync_commands
\* finds the tables and the descriptions of the first.
C21_Witness ==
    /\ bulk.by = "sync_commands" /\ bulk.err = None
    /\ Len(bulk.calls) = 2
    /\ \E i \in 1..Len(bulk.calls[2].payload) :
           /\ bulk.calls[2].payload[i].name = "pog"
           /\ Len(bulk.calls[2].payload[i].options) = 1
    /\ func.parameter_descriptions # NoDescriptions
    /\ commands["c1"]["pog"] = "k1"

\* Context.send without a modal, and Context.defer, called on an interaction
ContextSends(i) ==
    \E mixed \in BOOLEAN, answer \in Answers, fetched \in Answers :
        ContextSend(i, mixed, answer, fetched)
ContextDefers(i) == \E answer \in Answers : ContextDefer(i, answer)

\* C22: Context.send without a modal goes through send_message, which creates
\* the initial response, exactly when the interaction is not responded to yet,
\* and through the follow-up webhook otherwise; it never raises
\* InteractionResponded; and a send or defer creates a response only when none
\* was created before.
C22_SendRespondsOnce ==
    [][\A i \in Interactions :
          /\ ContextSends(i) =>
                /\ (http'.via = "send_message") <=> ~responded[i]
                /\ (http'.via = "followup") <=> responded[i]
                /\ http'.call => ~responded[i]
                /\ http'.followup => responded[i]
                /\ err' # "InteractionResponded"
          /\ ((ContextSends(i) \/ ContextDefers(i)) /\ created'[i] > created[i]) =>
                created[i] = 0]_vars

\* After a response was created, a Context.send has gone through the follow-up
\* webhook and raised nothing.
C22_Witness ==
    /\ http.op = "Context.send" /\ http.via = "followup" /\ http.followup
    /\ ~http.call
    /\ err = None
    /\ responded[1] /\ created[1] = 1

\* One of the five response methods, or Context.defer, is called on an
\* interaction; a send_modal has issued its call when it is waiting afterwards
ResponseMethod(i) ==
    \/ \E mixed \in BOOLEAN, answer \in Answers : SendMessage(i, mixed, answer)
    \/ \E answer \in Answers : Defer(i, answer)
    \/ \E answer \in Answers : Pong(i, answer)
    \/ \E mixed \in BOOLEAN, answer \in Answers : EditMessage(i, mixed, answer)
    \/ ContextDefers(i)
SendsModal(i) == \E m \in Modals : SendModalCall(i, m)

\* C23: send_message, defer, pong, edit_message and send_modal, called on an
\* interaction that is responded to, raise InteractionResponded and issue no
\* create_interaction_response; the responded flag becomes true only in a step
\* in which a create_interaction_response completes; once true it stays true.
C23_RespondedGuards ==
    [][\A i \in Interactions :
          /\ (responded[i] /\ ResponseMethod(i)) =>
                /\ err' = "InteractionResponded"
                /\ ~http'.call
                /\ created' = created
          /\ (responded[i] /\ SendsModal(i)) =>
                /\ err' = "InteractionResponded"
                /\ inflight' = inflight
                /\ created' = created
          /\ (~responded[i] /\ responded'[i]) => created'[i] = created[i] + 1
          /\ responded[i] => responded'[i]]_vars

\* An edit_message on a component interaction that a defer had responded to has
\* raised InteractionResponded.
C23_Witness ==
    /\ parent_type[1] = COMPONENT
    /\ responded[1] /\ created[1] = 1
    /\ http.op = "edit_message" /\ ~http.call
    /\ err = "InteractionResponded"

\* C24: delete_all_commands(guild_id) issues one bulk upsert, of no commands, to
\* the given scope; when it raises nothing that scope holds no command
\* afterwards; every other scope of the platform and every cog's table are as
\* they were.
C24_DeleteAllFrame ==
    [][\A guild_id \in Scopes :
          DeleteAllCommands(guild_id) =>
             /\ Len(bulk'.calls) = 1
             /\ bulk'.calls[1].scope = guild_id
             /\ bulk'.calls[1].payload = <<>>
             /\ err' = None => platform'[guild_id] = {}
             /\ \A g \in Scopes \ {guild_id} : platform'[g] = platform[g]
             /\ commands' = commands]_vars

\* After a sync that uploaded both scopes, delete_all_commands() has emptied the
\* global scope; guild 123 holds its commands and the tables theirs.
C24_Witness ==
    /\ bulk.by = "delete_all_commands" /\ bulk.err = None
    /\ bulk.calls[1].scope = None
    /\ platform[None] = {}
    /\ platform["123"] = {"pog", "quote"}
    /\ commands["c1"]["pog"] = "k1" /\ commands["c2"]["bonk"] = "k3"

\* The places of a command's payload in the bulk upserts of a sync: the call
\* and the position in the call's list
Contributions(calls, k) ==
    {w \in UNION {{<<i, j>> : j \in 1..Len(calls[i].payload)} : i \in 1..Len(calls)} :
        calls[w[1]].payload[w[2]].name = CommandDef(k).name}

\* C25: in one sync_commands no scope gets two bulk upserts; when the sync
\* raises nothing, the payload of every Command member of every loaded Cog is in
\* exactly one bulk upsert, that of the member's guild_id; a member of a cog
\* that is not loaded, or of an object that is no Cog, is in none.
C25_OneCallPerScope ==
    [][(SyncCommands \/ \E cogs \in SUBSET AllCogs : ReloadAllExtensions(cogs)) =>
          /\ \A i, j \in 1..Len(bulk'.calls) :
                bulk'.calls[i].scope = bulk'.calls[j].scope => i = j
          /\ \A k \in CommandIds :
                IF CommandDef(k).cog \in loaded' \cap CogSet
                THEN err' = None =>
                        /\ Cardinality(Contributions(bulk'.calls, k)) = 1
                        /\ \A w \in Contributions(bulk'.calls, k) :
                              bulk'.calls[w[1]].scope = CommandDef(k).guild_id
                ELSE Contributions(bulk'.calls, k) = {}]_vars

\* A sync with both Cogs and the plain cog loaded has uploaded the global scope
\* and guild 123.
C25_Witness ==
    /\ loaded = AllCogs
    /\ bulk.by = "sync_commands" /\ bulk.err = None
    /\ Len(bulk.calls) = 2
    /\ bulk.calls[1].scope = None /\ Len(bulk.calls[1].payload) = 1
    /\ bulk.calls[2].scope = "123" /\ Len(bulk.calls[2].payload) = 2

\* C26: in Bot.start, sync_commands begins only with the identity stored; the
\* connection is open only after a sync_commands that raised nothing, so an
\* inbound event is dispatched only with every loaded Cog's table holding its
\* commands; a sync_commands that raises makes start raise, and start does not
\* go on after it raised.
C26_StartOrder ==
    [][/\ StartSyncCommands => (application_id # None /\ err' # "RuntimeError")
       /\ start' \in {"synced", "connected"} =>
             /\ application_id' # None
             /\ \A k \in CommandIds :
                   CommandDef(k).cog \in loaded' \cap CogSet =>
                      commands'[CommandDef(k).cog][CommandDef(k).name] = k
       /\ Gateway =>
             \A k \in CommandIds :
                CommandDef(k).cog \in loaded \cap CogSet =>
                   commands[CommandDef(k).cog][CommandDef(k).name] = k
       /\ (StartSyncCommands /\ err' # None) => start' = "raised"
       /\ start = "raised" => start' = "raised"]_vars

\* The open connection has delivered an application command, which was
\* dispatched to its handler.
C26_Witness ==
    /\ start = "connected"
    /\ application_id # None
    /\ event.type = APPLICATION_COMMAND
    /\ invoked # <<>>

\* A sync_commands step, called by the application or by reload_all_extensions
Syncs == SyncCommands \/ \E cogs \in SUBSET AllCogs : ReloadAllExtensions(cogs)

\* C27: when a bulk upsert of sync_commands raises, sync_commands raises the
\* error and the call is its last; the scopes of the calls before it hold the
\* payloads those calls carried, every other scope is as it was. And every
\* sync_commands that raises nothing, also one after a failed one, has uploaded
\* every scope that has a command.
C27_SyncNotAtomic ==
    [][Syncs =>
          /\ \A i \in 1..Len(bulk'.calls) :
                bulk'.calls[i].raised =>
                   /\ err' = "HTTPException"
                   /\ i = Len(bulk'.calls)
          /\ \A i \in 1..Len(bulk'.calls) :
                ~bulk'.calls[i].raised =>
                   platform'[bulk'.calls[i].scope] = Names(bulk'.calls[i].payload)
          /\ \A g \in Scopes :
                (\A i \in 1..Len(bulk'.calls) :
                    bulk'.calls[i].scope = g => bulk'.calls[i].raised) =>
                   platform'[g] = platform[g]
          /\ err' = None =>
                \A k \in CommandIds :
                   CommandDef(k).cog \in loaded' \cap CogSet =>
                      \E i \in 1..Len(bulk'.calls) :
                         /\ bulk'.calls[i].scope = CommandDef(k).guild_id
                         /\ ~bulk'.calls[i].raised]_vars

\* A sync_commands has uploaded the global scope and then raised on guild 123:
\* the global scope holds bonk, the guild what it held before.
C27_Witness ==
    /\ bulk.by = "sync_commands" /\ bulk.err = "HTTPException"
    /\ Len(bulk.calls) = 2
    /\ ~bulk.calls[1].raised /\ bulk.calls[2].raised
    /\ platform[None] = {"bonk"}
    /\ platform["123"] = {"stale"}

\* C28 (the case of an interaction already responded to): a send_modal that
\* raises InteractionResponded leaves the table of pending modals as it was.
C28_FailedSendModalKeepsTable ==
    [][\A i \in Interactions :
          (SendsModal(i) /\ err' = "InteractionResponded") =>
             UNCHANGED <<hasModals, modals>>]_vars

\* The kind of entity an option's wire type names: user, channel, role
WireKind == (6 :> "Member") @@ (7 :> "Channel") @@ (8 :> "Role")

\* The side table of data.resolved that a wire type names
SideTable(ev, type) ==
    CASE type = 6 -> ev.resolved.users
      [] type = 7 -> ev.resolved.channels
      [] type = 8 -> ev.resolved.roles

\* C29: when data.resolved holds every referred entity in the side table of its
\* kind, the handler's argument for a type-6 option is a member, for a type-7
\* option a channel, for a type-8 option a role, and the target of a message
\* command is a message, whatever ids the side tables share.
C29_EntityKindMatchesType ==
    (Delivered({"slash", "message"}) /\ Len(invoked) = 1) =>
        IF CommandDef(get_application_command(inbox.name)).kind = "message"
        THEN inbox.target_id \in inbox.resolved.messages =>
                invoked[1].params["target"].kind = "Message"
        ELSE \A i \in 1..Len(inbox.options) :
                (/\ inbox.has_options
                 /\ inbox.options[i].type \in DOMAIN WireKind
                 /\ inbox.options[i].value \in SideTable(inbox, inbox.options[i].type)
                 /\ \A k \in (i + 1)..Len(inbox.options) :
                       inbox.options[k].name # inbox.options[i].name) =>
                   invoked[1].params[inbox.options[i].name].kind
                       = WireKind[inbox.options[i].type]

\* The arguments of the delivered application command build without an error
ArgumentsBuild ==
    build_arguments(get_application_command(inbox.name), inbox).err = None

\* C30 (as the code has it): an inbound application command that names a
\* registered command and whose arguments build has its handler invoked exactly
\* once, by the Bot's listener, although every loaded cog's listener receives
\* the same event.
C30_InvokedOnceWhenArgumentsBuild ==
    (Delivered({"slash", "message", "user"}) /\ ArgumentsBuild) =>
        /\ Len(invoked) = 1
        /\ invoked[1].by = "bot"
        /\ invoked[1].command = get_application_command(inbox.name)

\* A command of a loaded cog was delivered, its arguments built, and the owning
\* cog's listener ran on the same event after the Bot's.
C30_Witness ==
    /\ Delivered({"slash"})
    /\ ArgumentsBuild
    /\ CommandDef(get_application_command(inbox.name)).cog \in loaded
    /\ Len(invoked) = 1
    /\ raised[CommandDef(get_application_command(inbox.name)).cog] = "TypeError"

\* C30 (as stated): every inbound application command that names a registered
\* command has its handler invoked exactly once.
C30_InvokedExactlyOnce ==
    Delivered({"slash", "message", "user"}) => Len(invoked) = 1

\* No lookup by name finds a command
NoneRegistered == \A n \in CommandNames : get_application_command(n) = None

\* C31: a lookup by name gives None or a command of that name whose cog is a
\* loaded Cog; after a sync_commands that raised nothing it gives a command for
\* every name of an uploaded payload; and every lookup gives None from the
\* start until the first sync_commands.
C31_LookupSound ==
    /\ NoneRegistered
    /\ [][(NoneRegistered /\ ~Syncs) => NoneRegistered']_vars
    /\ [](\A n \in CommandNames :
             get_application_command(n) # None =>
                /\ CommandDef(get_application_command(n)).name = n
                /\ CommandDef(get_application_command(n)).cog \in loaded \cap CogSet)
    /\ []((bulk.by = "sync_commands" /\ bulk.err = None) =>
             \A i \in 1..Len(bulk.calls) :
                \A n \in Names(bulk.calls[i].payload) :
                   /\ n \in CommandNames
                   /\ get_application_command(n) # None)

\* After a sync with only the first Cog and the plain cog loaded, the lookup
\* finds the uploaded pog and quote and finds neither bonk nor ping's owner.
C31_Witness ==
    /\ loaded = {"c1", "p1"}
    /\ bulk.by = "sync_commands" /\ bulk.err = None
    /\ Len(bulk.calls) = 1
    /\ Names(bulk.calls[1].payload) = {"pog", "quote"}
    /\ get_application_command("pog") = "k1"
    /\ get_application_command("quote") = "k2"
    /\ get_application_command("bonk") = None

\* The coroutines that ran a method that answers an interaction of this type
Answering(i) ==
    {r \in Coroutines :
        /\ coro[r].i = i
        /\ coro[r].op = "edit_message" => parent_type[i] = COMPONENT}

\* C32: however the coroutines running response methods on one interaction
\* interleave, at most one of them calls create_interaction_response, and of
\* those that have ended all but one raised InteractionResponded.
C32_OneCreateCall ==
    \A i \in Interactions :
       /\ Cardinality({r \in Answering(i) : coro[r].call}) <= 1
       /\ Cardinality({r \in Answering(i) :
                          coro[r].pc \in {"returned", "HTTPException"}}) <= 1
====
